---- MODULE Spec2Model ----
(***************************************************************************)
(* Glancy: a namespaced key-value facade over the browser's localStorage   *)
(* with TTL expiry, an optional LZW compressor and an optional cipher.     *)
(* The model follows src/src/storage/Glancy.ts, src/src/storage/           *)
(* BaseStorage.ts, src/src/compression/LZWCompressor.ts and                *)
(* src/src/encryption/AESEncryption.ts.  JavaScript strings the facade     *)
(* names things by are sequences of one-character strings, so that         *)
(* startsWith and replace are computed as the code computes them; the      *)
(* strings the compressor works on are sequences of UTF-16 code units.     *)
(* JavaScript values carry their type.                                     *)
(***************************************************************************)
EXTENDS Integers, Sequences, FiniteSets, TLC

VARIABLES
  localStorage, \* the shared store: physical key -> stored text
  now,          \* Date.now()
  inst,         \* the constructed instances: id -> options kept
  res,          \* the response of the last call (NoCall after a clock advance)
  lastWrite,    \* history: physical key -> the last set/touch that wrote it
  pending       \* the microtask queue: the continuations still to run

vars == <<localStorage, now, inst, res, lastWrite, pending>>

----------------------------------------------------------------------------
(* JavaScript values *)

Undefined == [type |-> "undefined"]
Null == [type |-> "null"]
EmptyObject == [type |-> "object"]
Num(n) == [type |-> "number", val |-> n]
Str(s) == [type |-> "string", val |-> s]
Bool(b) == [type |-> "boolean", val |-> b]

\* the number NaN
NaN == [type |-> "number", nan |-> TRUE]

\* a number with a fractional part: n + 1/2
Half(n) == [type |-> "number", val |-> n, half |-> TRUE]

\* !v is FALSE
Truthy(v) ==
  CASE v.type = "undefined" -> FALSE
    [] v.type = "null" -> FALSE
    [] v.type = "number" -> "nan" \notin DOMAIN v /\ ("half" \in DOMAIN v \/ v.val # 0)
    [] v.type = "string" -> v.val # <<>>
    [] v.type = "boolean" -> v.val
    [] OTHER -> TRUE

\* a || b
OrElse(a, b) == IF Truthy(a) THEN a ELSE b

\* a ?? b
Nullish(a, b) == IF a.type \in {"undefined", "null"} THEN b ELSE a

\* Number.isInteger(v)
IsInteger(v) == v.type = "number" /\ DOMAIN v = {"type", "val"}

\* obj.name, undefined when the member is missing
Member(obj, name) == IF name \in DOMAIN obj THEN obj[name] ELSE Undefined

Min(a, b) == IF a <= b THEN a ELSE b
Max(a, b) == IF a >= b THEN a ELSE b

----------------------------------------------------------------------------
(* Strings *)

StartsWith(s, p) == Len(p) <= Len(s) /\ SubSeq(s, 1, Len(p)) = p

\* s.indexOf(p), counted from 1; 0 when p does not occur
IndexOf(s, p) ==
  LET hits == {i \in 1..(Len(s) - Len(p) + 1) : SubSeq(s, i, i + Len(p) - 1) = p}
  IN IF hits = {} THEN 0 ELSE CHOOSE i \in hits : \A j \in hits : i <= j

\* s.replace(p, ''): a string pattern, so only its first occurrence goes
RemoveFirst(s, p) ==
  LET i == IndexOf(s, p)
  IN IF i = 0 THEN s ELSE SubSeq(s, 1, i - 1) \o SubSeq(s, i + Len(p), Len(s))

Colon == <<":">>

\* the number of decimal digits of a natural number
RECURSIVE Digits(_)
Digits(n) == IF n < 10 THEN 1 ELSE 1 + Digits(n \div 10)

RECURSIVE SumOver(_, _)
SumOver(f, S) ==
  IF S = {} THEN 0
  ELSE LET x == CHOOSE y \in S : TRUE IN f[x] + SumOver(f, S \ {x})

\* the characters with the codes 32 to 126, in the order of their codes (the
\* grave accent, code 96, by its name)
Printable ==
  <<" ", "!", "\"", "#", "$", "%", "&", "'", "(", ")", "*", "+", ",", "-",
    ".", "/", "0", "1", "2", "3", "4", "5", "6", "7", "8", "9", ":", ";",
    "<", "=", ">", "?", "@", "A", "B", "C", "D", "E", "F", "G", "H", "I",
    "J", "K", "L", "M", "N", "O", "P", "Q", "R", "S", "T", "U", "V", "W",
    "X", "Y", "Z", "[", "\\", "]", "^", "_", "grave", "a", "b", "c", "d", "e",
    "f", "g", "h", "i", "j", "k", "l", "m", "n", "o", "p", "q", "r", "s",
    "t", "u", "v", "w", "x", "y", "z", "{", "|", "}", "~">>

\* c.charCodeAt(0)
charCodeAt(c) == 31 + (CHOOSE i \in 1..Len(Printable) : Printable[i] = c)

\* the code units of a string of printable characters
CodeUnits(s) == [i \in 1..Len(s) |-> charCodeAt(s[i])]

\* String(n), for a natural number
RECURSIVE Decimal(_)
Decimal(n) ==
  IF n < 10 THEN <<Printable[17 + n]>>
  ELSE Append(Decimal(n \div 10), Printable[17 + (n % 10)])

\* String(v), as a template literal and a property name take it
String(v) ==
  CASE v.type = "string" -> v.val
    [] v.type = "number" -> Decimal(v.val)
    [] v.type = "null" -> <<"n", "u", "l", "l">>
    [] v.type = "undefined" -> <<"u", "n", "d", "e", "f", "i", "n", "e", "d">>
    [] v.type = "boolean" ->
         IF v.val THEN <<"t", "r", "u", "e">> ELSE <<"f", "a", "l", "s", "e">>
    [] OTHER -> <<"[", "o", "b", "j", "e", "c", "t", " ", "O", "b", "j", "e", "c", "t", "]">>

\* the concatenation of the strings of a sequence
RECURSIVE Flatten(_)
Flatten(ss) == IF ss = <<>> THEN <<>> ELSE Head(ss) \o Flatten(Tail(ss))

----------------------------------------------------------------------------
(* Errors: a step of a handler ends with a value or with a thrown error *)

Ok(v) == [thrown |-> FALSE, val |-> v]
Throw(name, message) == [thrown |-> TRUE, name |-> name, message |-> message]

----------------------------------------------------------------------------
(* validators.ts *)

validateStorageKey(key) ==
  IF ~Truthy(key) \/ key.type # "string"
  THEN [success |-> FALSE, message |-> "Invalid storage key"]
  ELSE [success |-> TRUE, message |-> "Storage key is valid"]

validateTTL(ttl) ==
  IF ttl # Undefined /\ (~IsInteger(ttl) \/ ttl.val < 0)
  THEN [success |-> FALSE, message |-> "Invalid TTL value"]
  ELSE [success |-> TRUE, message |-> "TTL is valid"]

----------------------------------------------------------------------------
(* BaseStorage.ts *)

getNamespacedKey(namespace, key) == namespace \o Colon \o String(key)

\* a faulty variant: the comparison turned round
isExpiredReversed(item, t) ==
  IF ~Truthy(Member(item, "ttl")) THEN FALSE
  ELSE t < item.timestamp.val + item.ttl.val

\* a faulty variant: expired already at now = timestamp + ttl
isExpiredAtBoundary(item, t) ==
  IF ~Truthy(Member(item, "ttl")) THEN FALSE
  ELSE t >= item.timestamp.val + item.ttl.val

isExpired(item, t) ==
  IF ~Truthy(Member(item, "ttl")) THEN FALSE
  ELSE t > item.timestamp.val + item.ttl.val

----------------------------------------------------------------------------
(* The bounds of the runs *)

MaxClock == 2
MaxClockTTL == 16
MaxClockFault == 1
MaxClockBatch == 2
MaxClockCipher == 1
MaxClockEntry == 2
MaxClockRace == 2
MaxPending == 2
MaxBatch == 2
MaxInput == 7
MaxCodes == 4
Alphabet == {97, 98}

Values == {Str(<<"h", "i">>), Num(0)}

KeysTTL == {Str(<<"k">>)}
TTLsTTL == {Undefined, Num(0), Num(10)}
DefaultTTLs == {Undefined, Num(0), Num(3)}
TTLsShared == {Undefined, Num(1)}

----------------------------------------------------------------------------
(* JSON.  A text is kept as the object it spells: stringify drops the      *)
(* members whose value is undefined, parse gives back an object with the   *)
(* members the text holds.  Units gives the characters of the text.        *)

JSONstringify(item) ==
  [kind |-> "json",
   obj |-> [n \in {m \in DOMAIN item : item[m] # Undefined} |-> item[n]]]

\* a string held by its UTF-16 code units
StrUnits(units) == [type |-> "string", units |-> units]

\* an object value with members
Object(obj) == [type |-> "object", obj |-> obj]

\* the members of the texts of the model, in the order they are written
MemberOrder ==
  <<"value", "timestamp", "ttl", "data", "meta", "originalSize",
    "compressedSize", "algorithm", "dictionarySize">>

MemberName ==
  [value |-> <<"v", "a", "l", "u", "e">>,
   timestamp |-> <<"t", "i", "m", "e", "s", "t", "a", "m", "p">>,
   ttl |-> <<"t", "t", "l">>,
   data |-> <<"d", "a", "t", "a">>,
   meta |-> <<"m", "e", "t", "a">>,
   originalSize |-> <<"o", "r", "i", "g", "i", "n", "a", "l", "S", "i", "z", "e">>,
   compressedSize |->
     <<"c", "o", "m", "p", "r", "e", "s", "s", "e", "d", "S", "i", "z", "e">>,
   algorithm |-> <<"a", "l", "g", "o", "r", "i", "t", "h", "m">>,
   dictionarySize |->
     <<"d", "i", "c", "t", "i", "o", "n", "a", "r", "y", "S", "i", "z", "e">>]

IsHighSurrogate(u) == u >= 55296 /\ u <= 56319
IsLowSurrogate(u) == u >= 56320 /\ u <= 57343

\* the code unit of a hexadecimal digit
HexDigit(n) == IF n < 10 THEN 48 + n ELSE 87 + n

\* \uXXXX
Escape(u) ==
  <<92, 117, HexDigit(u \div 4096), HexDigit((u \div 256) % 16),
    HexDigit((u \div 16) % 16), HexDigit(u % 16)>>

\* one code unit inside a JSON string
QuoteUnit(u) ==
  CASE u = 34 -> <<92, 34>>
    [] u = 92 -> <<92, 92>>
    [] u = 8 -> <<92, 98>>
    [] u = 9 -> <<92, 116>>
    [] u = 10 -> <<92, 110>>
    [] u = 12 -> <<92, 102>>
    [] u = 13 -> <<92, 114>>
    [] u < 32 \/ IsHighSurrogate(u) \/ IsLowSurrogate(u) -> Escape(u)
    [] OTHER -> <<u>>

\* the inside of a JSON string: a surrogate pair stands as it is, a lone
\* surrogate is escaped
RECURSIVE QuoteUnits(_)
QuoteUnits(units) ==
  IF units = <<>> THEN <<>>
  ELSE IF Len(units) >= 2 /\ IsHighSurrogate(units[1]) /\ IsLowSurrogate(units[2])
    THEN <<units[1], units[2]>> \o QuoteUnits(SubSeq(units, 3, Len(units)))
  ELSE QuoteUnit(units[1]) \o QuoteUnits(Tail(units))

RECURSIVE ValueUnits(_)
RECURSIVE ObjectUnits(_)

\* the characters of JSON.stringify(obj)
ObjectUnits(obj) ==
  LET present == SelectSeq(MemberOrder, LAMBDA n : n \in DOMAIN obj)
      member(i) ==
        (IF i = 1 THEN <<>> ELSE <<44>>)
          \o <<34>> \o CodeUnits(MemberName[present[i]]) \o <<34, 58>>
          \o ValueUnits(obj[present[i]])
  IN <<123>> \o Flatten([i \in 1..Len(present) |-> member(i)]) \o <<125>>

\* the characters of JSON.stringify(v)
ValueUnits(v) ==
  CASE v.type = "number" -> CodeUnits(Decimal(v.val))
    [] v.type = "string" ->
         <<34>> \o (IF "units" \in DOMAIN v THEN QuoteUnits(v.units)
                    ELSE QuoteUnits(CodeUnits(v.val))) \o <<34>>
    [] v.type = "object" ->
         IF "obj" \in DOMAIN v THEN ObjectUnits(v.obj) ELSE <<123, 125>>
    [] OTHER -> CodeUnits(String(v))

\* the characters of a JSON text
Units(text) == ObjectUnits(text.obj)

\* the texts of the items the model stores
ItemTexts ==
  {JSONstringify([value |-> v, timestamp |-> Num(t), ttl |-> l]) :
     v \in Values \cup {EmptyObject},
     t \in 0..MaxClockTTL,
     l \in TTLsTTL \cup DefaultTTLs \cup TTLsShared}

\* JSON.parse(text): of a text kept as its object, the object; of a string
\* of characters, the item it spells, or a SyntaxError; a base64 text is not
\* JSON
JSONparse(text) ==
  CASE text.kind = "json" -> Ok(text.obj)
    [] text.kind = "chars" ->
         LET spelt == {x \in ItemTexts : Units(x) = text.units}
         IN IF text.units = <<>> \/ text.units[1] # 123 \/ spelt = {}
            THEN Throw("SyntaxError", "Unexpected token")
            ELSE Ok((CHOOSE x \in spelt : TRUE).obj)
    [] OTHER -> Throw("SyntaxError", "Unexpected token")

\* the bytes of a character in UTF-8 (a surrogate is half of a pair of four)
Utf8Bytes(u) ==
  IF u < 128 THEN 1
  ELSE IF u < 2048 \/ IsHighSurrogate(u) \/ IsLowSurrogate(u) THEN 2
  ELSE 3

RECURSIVE SumSeq(_)
SumSeq(s) == IF s = <<>> THEN 0 ELSE Head(s) + SumSeq(Tail(s))

\* Buffer.from(text, "utf8").length
Utf8Length(text) ==
  LET units == Units(text) IN SumSeq([i \in 1..Len(units) |-> Utf8Bytes(units[i])])

\* text.length: of a base64 text, that of 16 bytes of IV, the UTF-8 bytes of
\* the plaintext and 16 bytes of tag
TextLength(text) ==
  CASE text.kind = "aes" -> 4 * ((32 + Utf8Length(text.data) + 2) \div 3)
    [] text.kind = "chars" -> Len(text.units)
    [] OTHER -> Len(Units(text))

----------------------------------------------------------------------------
(* LZWCompressor.ts.  The dictionary of compressData maps a phrase to its  *)
(* code; its 256 single characters are not listed, a phrase of one         *)
(* character below 256 has its code.  The dictionary of decompressData is  *)
(* an array: its length, and the entries from 256 on that are set (an      *)
(* index below the length that is not set is a hole and reads undefined).  *)

SeedSize == 256
windowSize == 3
MaxPatterns == 100

\* new LZWCompressor(options)
\* a variant: a cap of 4096 where the options name none
LZWCompressorDefaultCap(options) ==
  [dictionarySize |-> Nullish(Member(options, "dictionarySize"), Num(4096))]

LZWCompressor(options) == [dictionarySize |-> Member(options, "dictionarySize")]

\* dictSize < this.dictionarySize: false when dictionarySize is undefined
HasRoom(c, dictSize) ==
  c.dictionarySize.type = "number" /\ dictSize < c.dictionarySize.val

\* the entries a rebuild can add after the 256 single characters
Room(c) ==
  IF c.dictionarySize.type = "number" THEN Max(0, c.dictionarySize.val - SeedSize)
  ELSE 0

\* Math.ceil(Math.log2(n)), for n >= 1
CeilLog2(n) == CHOOSE b \in 0..30 : 2^b >= n /\ (b = 0 \/ 2^(b - 1) < n)

\* Math.ceil(Math.log2(this.dictionarySize)): NaN when it is undefined
bits(c) ==
  IF c.dictionarySize.type = "number" THEN Num(CeilLog2(c.dictionarySize.val))
  ELSE NaN

\* n.toString(2), as a sequence of binary digits
RECURSIVE toBinary(_)
toBinary(n) == IF n < 2 THEN <<n>> ELSE Append(toBinary(n \div 2), n % 2)

\* parseInt(digits, 2)
RECURSIVE parseBinary(_)
parseBinary(digits) ==
  IF digits = <<>> THEN 0
  ELSE 2 * parseBinary(SubSeq(digits, 1, Len(digits) - 1)) + digits[Len(digits)]

Zeros(n) == [i \in 1..n |-> 0]

\* digits.padStart(width, '0'): a width of NaN pads nothing
padStart(digits, width) ==
  IF "nan" \in DOMAIN width \/ Len(digits) >= width.val THEN digits
  ELSE Zeros(width.val - Len(digits)) \o digits

\* digits.padEnd(n, '0')
padEnd(digits, n) ==
  IF Len(digits) >= n THEN digits ELSE digits \o Zeros(n - Len(digits))

\* the distinct windows of a sequence of windows, the most frequent first and
\* among equally frequent ones the one met first: a Map filled in the order
\* of the windows, then sort((a, b) => b[1] - a[1])
ByFrequency(windows) ==
  LET idx == DOMAIN windows
      patterns == {windows[i] : i \in idx}
      count(p) == Cardinality({i \in idx : windows[i] = p})
      first(p) == CHOOSE i \in idx : windows[i] = p /\ \A j \in idx : windows[j] = p => i <= j
      before(p, q) ==
        count(p) > count(q) \/ (count(p) = count(q) /\ first(p) < first(q))
      rank(p) == 1 + Cardinality({q \in patterns : before(q, p)})
  IN [r \in 1..Cardinality(patterns) |-> CHOOSE p \in patterns : rank(p) = r]

analyzePatterns(buffer) ==
  ByFrequency([i \in 1..(Len(buffer) - 1) |-> <<buffer[i] % 65536, buffer[i + 1] % 65536>>])

findCommonPatterns(data) ==
  LET patterns ==
        ByFrequency([i \in 1..(Len(data) - windowSize + 1) |->
                       SubSeq(data, i, i + windowSize - 1)])
  IN SubSeq(patterns, 1, Min(Len(patterns), MaxPatterns))

\* the compression dictionary with no phrase beyond the single characters
NoPhrases == [p \in {} |-> 0]

\* dict.has(phrase)
dictHas(dict, phrase) ==
  (Len(phrase) = 1 /\ phrase[1] < SeedSize) \/ phrase \in DOMAIN dict

\* dict.get(phrase), for a phrase the dictionary has
dictGet(dict, phrase) == IF phrase \in DOMAIN dict THEN dict[phrase] ELSE phrase[1]

\* dict.set(phrase, code)
dictSet(dict, phrase, code) ==
  [p \in DOMAIN dict \cup {phrase} |-> IF p = phrase THEN code ELSE dict[p]]

rebuildDictionary(c, buffer) ==
  LET patterns == analyzePatterns(buffer)
      n == IF Room(c) = 0 THEN 0 ELSE Min(Len(patterns), Room(c))
  IN [p \in {patterns[r] : r \in 1..n} |->
        SeedSize - 1 + (CHOOSE r \in 1..n : patterns[r] = p)]

\* the loop of compressData from the character at i on; st holds dict,
\* dictSize, current, result and buffer, and counts the rebuilds
RECURSIVE compressFrom(_, _, _, _)
compressFrom(c, input, i, st) ==
  IF i > Len(input) THEN st
  ELSE LET char == input[i]
           phrase == Append(st.current, char)
           code == dictGet(st.dict, st.current)
           buffer == Append(st.buffer, code)
       IN IF dictHas(st.dict, phrase)
            THEN compressFrom(c, input, i + 1, [st EXCEPT !.current = phrase])
          ELSE IF HasRoom(c, st.dictSize)
            THEN compressFrom(c, input, i + 1,
                   [dict |-> dictSet(st.dict, phrase, st.dictSize),
                    dictSize |-> st.dictSize + 1,
                    current |-> <<char>>,
                    result |-> Append(st.result, code),
                    buffer |-> buffer,
                    rebuilds |-> st.rebuilds])
          ELSE compressFrom(c, input, i + 1,
                 [dict |-> rebuildDictionary(c, buffer),
                  dictSize |-> SeedSize + Len(buffer),
                  current |-> <<char>>,
                  result |-> Append(st.result, code),
                  buffer |-> buffer,
                  rebuilds |-> st.rebuilds + 1])

\* after the loop: if (current !== '') result.push(dict.get(current))
compressEnd(st) ==
  [result |-> IF st.current # <<>>
              THEN Append(st.result, dictGet(st.dict, st.current))
              ELSE st.result,
   rebuilds |-> st.rebuilds]

\* a variant: the dictionary is kept from one call to the next
compressStartKept ==
  IF "locals" \in DOMAIN res
  THEN [dict |-> res.locals.dict, dictSize |-> res.locals.dictSize, current |-> <<>>,
        result |-> <<>>, buffer |-> <<>>, rebuilds |-> 0]
  ELSE [dict |-> NoPhrases, dictSize |-> SeedSize, current |-> <<>>,
        result |-> <<>>, buffer |-> <<>>, rebuilds |-> 0]

\* the locals of compressData before its loop
compressStart ==
  [dict |-> NoPhrases, dictSize |-> SeedSize, current |-> <<>>,
   result |-> <<>>, buffer |-> <<>>, rebuilds |-> 0]

\* the codes compressData emits for input, and the rebuilds on the way
compressCodes(c, input) == compressEnd(compressFrom(c, input, 1, compressStart))

packCompressedData(c, data) ==
  LET binary == Flatten([i \in 1..Len(data) |-> padStart(toBinary(data[i]), bits(c))])
  IN [j \in 1..((Len(binary) + 15) \div 16) |->
        parseBinary(padEnd(SubSeq(binary, 16 * (j - 1) + 1, Min(16 * j, Len(binary))), 16))]

\* for (const char of packed) char.charCodeAt(0): the first code unit of each
\* code point, a surrogate pair being one code point
RECURSIVE codePoints(_)
codePoints(packed) ==
  IF packed = <<>> THEN <<>>
  ELSE IF Len(packed) >= 2 /\ IsHighSurrogate(packed[1]) /\ IsLowSurrogate(packed[2])
    THEN <<packed[1]>> \o codePoints(SubSeq(packed, 3, Len(packed)))
  ELSE <<packed[1]>> \o codePoints(Tail(packed))

\* with bits NaN the loop ends after its first round (i += NaN), whose chunk
\* binary.slice(0, NaN) is empty and is not kept
unpackCompressedData(c, packed) ==
  LET heads == codePoints(packed)
      binary == Flatten([i \in 1..Len(heads) |-> padStart(toBinary(heads[i]), Num(16))])
      width == bits(c)
  IN IF "nan" \in DOMAIN width THEN <<>>
     ELSE [j \in 1..(Len(binary) \div width.val) |->
             parseBinary(SubSeq(binary, width.val * (j - 1) + 1, width.val * j))]

\* the text compressData returns for the codes in result
compressText(c, input, result) ==
  [kind |-> "json",
   obj |-> [data |-> StrUnits(packCompressedData(c, result)),
            meta |-> Object(JSONstringify(
                       [originalSize |-> Num(Len(input)),
                        compressedSize |-> Num(Len(result)),
                        algorithm |-> Str(<<"L", "Z", "W", "-", "A", "D", "A", "P", "T", "I", "V", "E">>),
                        dictionarySize |-> c.dictionarySize]).obj)]]

compressData(c, input) == compressText(c, input, compressCodes(c, input).result)

\* a string, or undefined with the text it gives when it is concatenated
Defined(s) == [undef |-> FALSE, s |-> s]
Hole == [undef |-> TRUE, s |-> CodeUnits(String(Undefined))]

\* dict[code], for code < dict.length
dictAt(dict, code) ==
  IF code < SeedSize THEN Defined(<<code>>)
  ELSE IF code \in DOMAIN dict.at THEN Defined(dict.at[code])
  ELSE Hole

\* dict[index] = entry
dictPut(dict, index, entry) ==
  [length |-> Max(dict.length, index + 1),
   at |-> [k \in DOMAIN dict.at \cup {index} |-> IF k = index THEN entry ELSE dict.at[k]]]

rebuildDecompressionDictionary(c, decompressed) ==
  LET patterns == findCommonPatterns(decompressed)
      n == IF Room(c) = 0 THEN 0 ELSE Min(Len(patterns), Room(c))
  IN [length |-> SeedSize + n,
      at |-> [k \in SeedSize..(SeedSize + n - 1) |-> patterns[k - SeedSize + 1]]]

\* the loop of decompressData from the code at i on; st holds dict, dictSize,
\* result and current.  The loop ends with result, and what the locals hold
\* then is kept beside it
RECURSIVE decompressFrom(_, _, _, _)
decompressFrom(c, compressed, i, st) ==
  IF i > Len(compressed) THEN [thrown |-> FALSE, val |-> st.result, st |-> st]
  ELSE LET code == compressed[i]
           known == code < st.dict.length
           entry == IF known THEN dictAt(st.dict, code)
                    ELSE Defined(st.current.s \o <<st.current.s[1]>>)
           result == st.result \o entry.s
       IN IF ~known /\ code # st.dictSize
            THEN Throw("CompressionError", "Invalid compressed data")
          ELSE IF ~known /\ st.current.undef
            THEN Throw("TypeError", "Cannot read properties of undefined")
          ELSE IF HasRoom(c, st.dictSize)
            THEN IF entry.undef
                 THEN Throw("TypeError", "Cannot read properties of undefined")
                 ELSE decompressFrom(c, compressed, i + 1,
                        [dict |-> dictPut(st.dict, st.dictSize, st.current.s \o <<entry.s[1]>>),
                         dictSize |-> st.dictSize + 1,
                         result |-> result,
                         current |-> entry])
          ELSE decompressFrom(c, compressed, i + 1,
                 [dict |-> rebuildDecompressionDictionary(c, result),
                  dictSize |-> SeedSize + (Len(result) \div 2),
                  result |-> result,
                  current |-> entry])

\* String.fromCharCode(compressed[0]): of undefined, the character 0
firstCharacter(compressed) ==
  IF compressed = <<>> THEN 0 ELSE compressed[1] % 65536

\* decompressData from the unpacked codes on: the string it returns, held by
\* its code units
decompressCodes(c, compressed) ==
  decompressFrom(c, compressed, 2,
    [dict |-> [length |-> SeedSize, at |-> <<>>],
     dictSize |-> SeedSize,
     result |-> <<firstCharacter(compressed)>>,
     current |-> Defined(<<firstCharacter(compressed)>>)])

\* the string decompressData returns, as a text
decompressEnd(result) ==
  IF result.thrown THEN result ELSE Ok([kind |-> "chars", units |-> result.val])

\* decompressData from const { data: packedData } on
decompressPacked(c, packedData) ==
  IF packedData.type # "string" THEN Throw("TypeError", "packedData is not iterable")
  ELSE decompressEnd(decompressCodes(c, unpackCompressedData(c, packedData.units)))

\* decompressData from what JSON.parse(input) gave on
decompressParsed(c, parsed) ==
  IF parsed.thrown THEN parsed
  ELSE decompressPacked(c, Member(parsed.val, "data"))

decompressData(c, input) == decompressParsed(c, JSONparse(input))

----------------------------------------------------------------------------
(* AESEncryption.ts holds two classes.  The one the package builds is      *)
(* AES-256-GCM under a key derived from options.key and a salt drawn when  *)
(* the instance is constructed: a text deciphers under the key it was      *)
(* enciphered with; under any other key, and for a text that is no         *)
(* ciphertext, the tag does not verify and decrypt throws.  The other is   *)
(* the CryptoJS cipher of the earlier package, keyed by the passphrase.    *)

\* new AESEncryption(options), with the salt randomBytes gave
AESEncryption(options, salt) == [key |-> <<options.key, salt>>]

encrypt(e, data) == [kind |-> "aes", key |-> e.key, data |-> data]

\* the text of no characters
EmptyText == [kind |-> "chars", units |-> <<>>]

\* decrypt of the GCM class (lines 69-98): the text is returned when the tag
\* verifies, under the key the text was enciphered with and untouched
decryptGCM(e, data) ==
  IF data.kind = "aes" /\ data.key = e.key /\ "tampered" \notin DOMAIN data
  THEN Ok(data.data)
  ELSE Throw("Error", "Unsupported state or unable to authenticate data")

\* new AESEncryption(options) of the CryptoJS class (lines 122-128): the
\* passphrase is the key; garbage is what the bytes of a text deciphered under
\* another passphrase come to in this run
AESEncryptionCryptoJS(options, garbage) ==
  [key |-> <<options.key>>, garbage |-> garbage]

\* decrypt of the CryptoJS class (lines 142-153): AES-CBC without a tag.
\* Under the passphrase of the text the blocks decipher to what they now
\* spell; otherwise the bytes are no UTF-8 and toString throws, or they are
\* no text at all
decryptCryptoJS(e, data) ==
  IF data.kind = "aes" /\ data.key = e.key /\ "garbled" \notin DOMAIN data
  THEN Ok(data.data)
  ELSE IF e.garbage = "malformed"
  THEN Throw("EncryptionError", "Malformed UTF-8 data")
  ELSE Ok(EmptyText)

decrypt(e, data) ==
  IF "garbage" \in DOMAIN e THEN decryptCryptoJS(e, data) ELSE decryptGCM(e, data)

----------------------------------------------------------------------------
(* localStorage *)

\* localStorage.getItem(k)
getItem(ls, k) == IF k \in DOMAIN ls THEN ls[k] ELSE Null

\* localStorage.setItem(k, text)
setItem(ls, k, text) == [p \in DOMAIN ls \cup {k} |-> IF p = k THEN text ELSE ls[p]]

\* localStorage.removeItem(k)
removeItem(ls, k) == [p \in DOMAIN ls \ {k} |-> ls[p]]

\* !rawData, for what getItem returns: null, or the string of no characters
NoRawData(raw) == raw = Null \/ raw = EmptyText

\* what the browser does to the store accesses of one call: nothing, or it
\* rejects the writes for lack of room, or it denies every access
NoFault == "none"
QuotaExceeded == "QuotaExceededError"
Denied == "SecurityError"

\* the DOMException an access to a denied store throws
SecurityError == Throw(Denied, "The operation is insecure.")

\* the DOMException setItem throws for lack of room
QuotaExceededError == Throw(QuotaExceeded, "The quota has been exceeded.")

----------------------------------------------------------------------------
(* Glancy.ts: each handler as the function it computes, from the options   *)
(* o of the instance, the arguments, the store ls, the clock t and what    *)
(* the browser does to the store during the call, to the response and the  *)
(* store it leaves.  A handler called with no microtask pending runs to    *)
(* its end before anything else runs, also across its awaits.              *)

Response(success, message, data, ls) ==
  [success |-> success, message |-> message, data |-> data, ls |-> ls]

\* catch (error) { return { success: false, message: error.message, data } }
Caught(error, data, ls) == Response(FALSE, error.message, data, ls)

\* the error leaves the handler: the call throws, or its promise rejects
Escaped(error, ls) == [thrown |-> error.name, message |-> error.message, ls |-> ls]

\* new Glancy(options); salt is what the cipher draws for its key
NewGlancy(options, salt) ==
  [namespace |-> options.namespace,
   defaultTTL |-> Member(options, "defaultTTL"),
   compression |->
     IF Truthy(Member(options, "compress"))
     THEN LZWCompressor([compressionLevel |->
                           OrElse(Member(options, "compressionLevel"), Num(6))])
     ELSE Undefined,
   encryption |->
     IF Truthy(Member(options, "encryption"))
        /\ Truthy(Member(options.encryption, "enabled"))
     THEN AESEncryption(options.encryption, salt)
     ELSE Undefined]

\* new Glancy({ namespace, defaultTTL })
Glancy(namespace, defaultTTL) ==
  NewGlancy([namespace |-> namespace, defaultTTL |-> defaultTTL], 0)

\* a faulty variant: the key is not validated
removeUnvalidated(o, key, ls, fault) ==
  IF fault = Denied THEN Caught(SecurityError, Undefined, ls)
  ELSE Response(TRUE, "Item removed successfully", Undefined,
                removeItem(ls, getNamespacedKey(o.namespace, key)))

\* a faulty variant: every entry of the namespace is removed
removeAll(o, key, ls, fault) ==
  LET keyValidation == validateStorageKey(key)
  IN IF ~keyValidation.success
       THEN Response(FALSE, keyValidation.message, Undefined, ls)
     ELSE IF fault = Denied THEN Caught(SecurityError, Undefined, ls)
     ELSE Response(TRUE, "Item removed successfully", Undefined,
                   [p \in {q \in DOMAIN ls : ~StartsWith(q, o.namespace \o Colon)} |-> ls[p]])

remove(o, key, ls, fault) ==
  LET keyValidation == validateStorageKey(key)
  IN IF ~keyValidation.success
       THEN Response(FALSE, keyValidation.message, Undefined, ls)
     ELSE IF fault = Denied THEN Caught(SecurityError, Undefined, ls)
     ELSE Response(TRUE, "Item removed successfully", Undefined,
                   removeItem(ls, getNamespacedKey(o.namespace, key)))

\* localStorage.getItem(this.getNamespacedKey(key))
Read(o, key, ls, fault) ==
  IF fault = Denied THEN SecurityError
  ELSE Ok(getItem(ls, getNamespacedKey(o.namespace, key)))

\* this.encryption.decrypt(data), when a cipher is configured
Decrypted(o, rawData) ==
  IF o.encryption # Undefined THEN decrypt(o.encryption, rawData) ELSE Ok(rawData)

\* await this.compression.decompressData(data), when a compressor is
\* configured and nothing was thrown before
Decompressed(o, decrypted) ==
  IF decrypted.thrown \/ o.compression = Undefined THEN decrypted
  ELSE decompressData(o.compression, decrypted.val)

\* JSON.parse(data), when nothing was thrown before
Parsed(data) == IF data.thrown THEN data ELSE JSONparse(data.val)

\* a faulty variant: decompressData before decrypt
ParsedItemDecompressFirst(o, rawData) ==
  LET data == Decompressed(o, Ok(rawData))
  IN Parsed(IF data.thrown THEN data ELSE Decrypted(o, data.val))

\* decrypt, decompress, parse: the item of a stored text, or what is thrown
\* on the way
ParsedItem(o, rawData) == Parsed(Decompressed(o, Decrypted(o, rawData)))

\* a faulty variant: an entry that cannot be read is removed
getAfterParseDiscarding(o, key, ls, t, fault, item) ==
  IF item.thrown THEN Caught(item, Null, remove(o, key, ls, fault).ls)
  ELSE IF Member(item.val, "value") = Undefined
    THEN Response(FALSE, "Invalid item for key", Null, ls)
  ELSE IF isExpired(item.val, t)
    THEN Response(TRUE, "Item expired", Null, remove(o, key, ls, fault).ls)
  ELSE Response(TRUE, "Item retrieved successfully", item.val.value, ls)

\* get from the parsed item on
getAfterParse(o, key, ls, t, fault, item) ==
  IF item.thrown THEN Caught(item, Null, ls)
  ELSE IF Member(item.val, "value") = Undefined
    THEN Response(FALSE, "Invalid item for key", Null, ls)
  ELSE IF isExpired(item.val, t)
    THEN Response(TRUE, "Item expired", Null, remove(o, key, ls, fault).ls)
  ELSE Response(TRUE, "Item retrieved successfully", item.val.value, ls)

\* get from what getItem gave on
getAfterRead(o, key, ls, t, fault, rawData) ==
  IF rawData.thrown THEN Caught(rawData, Null, ls)
  ELSE IF NoRawData(rawData.val)
    THEN Response(TRUE, "Item not found", Null, ls)
  ELSE getAfterParse(o, key, ls, t, fault, ParsedItem(o, rawData.val))

get(o, key, ls, t, fault) ==
  LET keyValidation == validateStorageKey(key)
  IN IF ~keyValidation.success
       THEN Response(FALSE, keyValidation.message, Null, ls)
     ELSE getAfterRead(o, key, ls, t, fault, Read(o, key, ls, fault))

\* a faulty variant: defaultTTL || ttl
NewItemDefaultFirst(o, value, ttl, t) ==
  [value |-> Nullish(value, EmptyObject),
   timestamp |-> Num(t),
   ttl |-> OrElse(o.defaultTTL, ttl)]

\* the item set builds
\* a faulty variant: the default TTL is never substituted
NewItemNoDefault(o, value, ttl, t) ==
  [value |-> Nullish(value, EmptyObject),
   timestamp |-> Num(t),
   ttl |-> ttl]

NewItem(o, value, ttl, t) ==
  [value |-> Nullish(value, EmptyObject),
   timestamp |-> Num(t),
   ttl |-> OrElse(ttl, o.defaultTTL)]

\* an object that holds itself: JSON.stringify throws a TypeError for it
Cyclic == [type |-> "object", cyclic |-> TRUE]

Serializable(value) == value # Cyclic

\* JSON.stringify(item), compressed when a compressor is configured: what set
\* and touch hold when they suspend at await compressData
Compressed(o, item) ==
  IF o.compression # Undefined
  THEN compressData(o.compression, Units(JSONstringify(item)))
  ELSE JSONstringify(item)

\* the text that goes to the store: enciphered when a cipher is configured
Encrypted(o, serializedData) ==
  IF o.encryption # Undefined THEN encrypt(o.encryption, serializedData)
  ELSE serializedData

\* a faulty variant: the error is not looked at, its message is passed on
StoredUnchecked(o, key, serializedData, ls, fault) ==
  IF fault = QuotaExceeded THEN Caught(QuotaExceededError, Undefined, ls)
  ELSE IF fault = Denied THEN Caught(SecurityError, Undefined, ls)
  ELSE Response(TRUE, "Item set successfully", Undefined,
                setItem(ls, getNamespacedKey(o.namespace, key),
                        Encrypted(o, serializedData)))

\* the end of set, from encrypt on: the store write and its own catch
Stored(o, key, serializedData, ls, fault) ==
  IF fault = QuotaExceeded
    THEN Response(FALSE, "Storage quota exceeded", Undefined, ls)
  ELSE IF fault = Denied THEN Caught(SecurityError, Undefined, ls)
  ELSE Response(TRUE, "Item set successfully", Undefined,
                setItem(ls, getNamespacedKey(o.namespace, key),
                        Encrypted(o, serializedData)))

set(o, key, value, ttl, ls, t, fault) ==
  LET keyValidation == validateStorageKey(key)
      ttlValidation == validateTTL(ttl)
  IN IF ~keyValidation.success
       THEN Response(FALSE, keyValidation.message, Undefined, ls)
     ELSE IF ~ttlValidation.success
       THEN Response(FALSE, ttlValidation.message, Undefined, ls)
     ELSE IF ~Serializable(value)
       THEN Caught(Throw("TypeError", "Converting circular structure to JSON"),
                   Undefined, ls)
     ELSE Stored(o, key, Compressed(o, NewItem(o, value, ttl, t)), ls, fault)

\* a faulty variant: the timestamp is left as it was
TouchedItemOldTimestamp(o, item, ttl, t) ==
  [n \in DOMAIN item \cup {"ttl"} |->
     IF n = "ttl" THEN OrElse(ttl, o.defaultTTL) ELSE item[n]]

\* the item touch writes back
TouchedItem(o, item, ttl, t) ==
  [n \in DOMAIN item \cup {"ttl", "timestamp"} |->
     IF n = "ttl" THEN OrElse(ttl, o.defaultTTL)
     ELSE IF n = "timestamp" THEN Num(t)
     ELSE item[n]]

\* touch from the parsed item on
touchAfterParse(o, key, ttl, ls, t, fault, item) ==
  IF item.thrown THEN Caught(item, Bool(FALSE), ls)
  ELSE IF fault = QuotaExceeded THEN Caught(QuotaExceededError, Bool(FALSE), ls)
  ELSE Response(TRUE, "TTL updated successfully", Bool(TRUE),
                setItem(ls, getNamespacedKey(o.namespace, key),
                        Encrypted(o, Compressed(o, TouchedItem(o, item.val, ttl, t)))))

\* touch from what getItem gave on
touchAfterRead(o, key, ttl, ls, t, fault, rawData) ==
  IF rawData.thrown THEN Caught(rawData, Bool(FALSE), ls)
  ELSE IF NoRawData(rawData.val)
    THEN Response(TRUE, "Item not found", Bool(FALSE), ls)
  ELSE touchAfterParse(o, key, ttl, ls, t, fault, ParsedItem(o, rawData.val))

touch(o, key, ttl, ls, t, fault) ==
  LET keyValidation == validateStorageKey(key)
      ttlValidation == validateTTL(ttl)
  IN IF ~keyValidation.success
       THEN Response(FALSE, keyValidation.message, Bool(FALSE), ls)
     ELSE IF ~ttlValidation.success
       THEN Response(FALSE, ttlValidation.message, Bool(FALSE), ls)
     ELSE touchAfterRead(o, key, ttl, ls, t, fault, Read(o, key, ls, fault))

\* a faulty variant: no catch around the body of getTTL
getTTLUncaught(error, ls) == Escaped(error, ls)

\* the catch of getTTL
getTTLCatch(error, ls) == Caught(error, Null, ls)

\* getTTL from the parsed item on
getTTLAfterParse(ls, t, item) ==
  IF item.thrown THEN getTTLCatch(item, ls)
  ELSE IF ~Truthy(Member(item.val, "ttl"))
    THEN Response(TRUE, "Item has no TTL", Null, ls)
  ELSE Response(TRUE, "TTL retrieved successfully",
                Num(item.val.ttl.val - (t - item.val.timestamp.val)), ls)

\* getTTL from what getItem gave on
getTTLAfterRead(o, ls, t, rawData) ==
  IF rawData.thrown THEN getTTLCatch(rawData, ls)
  ELSE IF NoRawData(rawData.val)
    THEN Response(TRUE, "Item not found", Null, ls)
  ELSE getTTLAfterParse(ls, t, ParsedItem(o, rawData.val))

getTTL(o, key, ls, t, fault) ==
  LET keyValidation == validateStorageKey(key)
  IN IF ~keyValidation.success
       THEN Response(FALSE, keyValidation.message, Null, ls)
     ELSE getTTLAfterRead(o, ls, t, Read(o, key, ls, fault))

\* has from the response of get on
\* a faulty variant: data is the success of the get alone
hasAfterGetSuccessOnly(response) ==
  Response(TRUE, "Key check completed successfully",
           Bool(response.success), response.ls)

hasAfterGet(response) ==
  Response(TRUE, "Key check completed successfully",
           Bool(response.success /\ response.data # Null), response.ls)

has(o, key, ls, t, fault) == hasAfterGet(get(o, key, ls, t, fault))

\* Object.keys(localStorage).filter((key) => key.startsWith(this.namespace))
NamespaceFilter(o, ls) == {p \in DOMAIN ls : StartsWith(p, o.namespace)}

clear(o, ls, fault) ==
  IF fault = Denied THEN Caught(SecurityError, Undefined, ls)
  ELSE Response(TRUE, "Storage cleared successfully", Undefined,
                [p \in DOMAIN ls \ NamespaceFilter(o, ls) |-> ls[p]])

\* the array keys() returns, as physical key -> the string listed for it
\* (the order of Object.keys(localStorage) is the browser's)
keys(o, ls, fault) ==
  IF fault = Denied THEN Caught(SecurityError, Null, ls)
  ELSE Response(TRUE, "Keys retrieved successfully",
                [p \in NamespaceFilter(o, ls) |-> RemoveFirst(p, o.namespace \o Colon)],
                ls)

size(o, ls, fault) ==
  IF fault = Denied THEN Caught(SecurityError, Num(0), ls)
  ELSE Response(TRUE, "Size calculated successfully",
                Num(SumOver([p \in NamespaceFilter(o, ls) |-> Len(p) + TextLength(ls[p])],
                            NamespaceFilter(o, ls))),
                ls)

\* Object.fromEntries after the pair [key, response.success ? response.data :
\* null]: a later pair replaces an earlier one of the same property name
getManyEntry(acc, key, response) ==
  [ls |-> response.ls,
   data |-> [k \in DOMAIN acc.data \cup {String(key)} |->
               IF k = String(key)
               THEN (IF response.success THEN response.data ELSE Null)
               ELSE acc.data[k]]]

\* the gets of the keys ks after those gathered in acc.  The gets of a batch
\* read, and remove what they find expired, each under its own key, so the
\* order in which they resume does not show.
RECURSIVE getManyFrom(_, _, _, _, _)
getManyFrom(o, ks, t, fault, acc) ==
  IF ks = <<>> THEN acc
  ELSE getManyFrom(o, Tail(ks), t, fault,
                   getManyEntry(acc, Head(ks), get(o, Head(ks), acc.ls, t, fault)))

\* an array value with its elements
Array(elements) == [type |-> "array", elements |-> elements]

\* an object value with its own enumerable properties, as Object.entries
\* lists them
Record(entries) == [type |-> "object", entries |-> entries]

\* the response of getMany with the mapping gathered
getManyEnd(acc) == Response(TRUE, "Items retrieved successfully", acc.data, acc.ls)

\* keys.map of a keys that is no array throws a TypeError
getMany(o, ks, ls, t, fault) ==
  IF ks.type # "array"
  THEN Caught(Throw("TypeError", "Cannot read properties of null (reading map)"), Null, ls)
  ELSE getManyEnd(getManyFrom(o, ks.elements, t, fault, [ls |-> ls, data |-> <<>>]))

\* the set of one entry of setMany suspends at await compressData when a
\* compressor is configured and it has come that far; otherwise it runs to
\* its end at once
Suspends(o, key, value, ttl) ==
  /\ o.compression # Undefined
  /\ validateStorageKey(key).success /\ validateTTL(ttl).success
  /\ Serializable(value)

\* the set of an entry has run to its end: the store it leaves, and the
\* entry among those written if it succeeded
setManyEntry(acc, entry, response) ==
  [ls |-> response.ls,
   written |-> IF response.success THEN Append(acc.written, entry) ELSE acc.written,
   jobs |-> acc.jobs]

\* the set of an entry has suspended: its continuation is queued
setManyJob(o, acc, entry, ttl, t, fault) ==
  [acc EXCEPT !.jobs =
     Append(@, [key |-> entry.key, value |-> entry.value, ttl |-> ttl, at |-> t,
                serializedData |-> Compressed(o, NewItem(o, entry.value, ttl, t)),
                fault |-> fault])]

\* the forEach of setMany over Object.entries(items): the store it leaves,
\* the entries whose set has written, and the continuations of the sets that
\* suspended, in the order they were queued
RECURSIVE setManyFrom(_, _, _, _, _, _)
setManyFrom(o, entries, ttl, t, fault, acc) ==
  IF entries = <<>> THEN acc
  ELSE IF Suspends(o, Head(entries).key, Head(entries).value, ttl)
    THEN setManyFrom(o, Tail(entries), ttl, t, fault,
                     setManyJob(o, acc, Head(entries), ttl, t, fault))
  ELSE setManyFrom(o, Tail(entries), ttl, t, fault,
                   setManyEntry(acc, Head(entries),
                                set(o, Head(entries).key, Head(entries).value, ttl,
                                    acc.ls, t, fault)))

\* the response of setMany: the responses of the sets are dropped
setManyEnd(done) ==
  Response(TRUE, "Items set successfully", Undefined, done.ls)
    @@ [written |-> done.written, jobs |-> done.jobs]

\* Object.entries of null throws a TypeError
setMany(o, items, ttl, ls, t, fault) ==
  IF items.type \in {"null", "undefined"}
  THEN Caught(Throw("TypeError", "Cannot convert undefined or null to object"),
              Undefined, ls) @@ [written |-> <<>>, jobs |-> <<>>]
  ELSE setManyEnd(setManyFrom(o, items.entries, ttl, t, fault,
                              [ls |-> ls, written |-> <<>>, jobs |-> <<>>]))

----------------------------------------------------------------------------
(* The calls, as steps of the system *)

\* A call is made by the application, which runs when no microtask is left
\* in the queue.

NoCall == [op |-> "none"]

\* what the caller holds after the call: the response, or what was thrown
Called(op, i, key, r) ==
  IF "thrown" \in DOMAIN r
  THEN [op |-> op, id |-> i, key |-> key, thrown |-> r.thrown, message |-> r.message]
  ELSE [op |-> op, id |-> i, key |-> key,
        success |-> r.success, message |-> r.message, data |-> r.data]

\* the history kept for the entries that are still as they were written, plus
\* that of the entries the call did not remove
Surviving(after) ==
  [p \in {q \in DOMAIN lastWrite : q \in DOMAIN after \/ q \notin DOMAIN localStorage} |->
     lastWrite[p]]

Get(i, key, fault) ==
  /\ pending = <<>>
  /\ \E r \in {get(inst[i], key, localStorage, now, fault)} :
       /\ res' = Called("get", i, key, r) @@ [fault |-> fault]
       /\ localStorage' = r.ls
       /\ UNCHANGED <<now, inst, lastWrite, pending>>

Set(i, key, value, ttl, fault) ==
  /\ pending = <<>>
  /\ \E r \in {set(inst[i], key, value, ttl, localStorage, now, fault)} :
       /\ res' = Called("set", i, key, r)
                    @@ [value |-> value, ttl |-> ttl, fault |-> fault]
       /\ localStorage' = r.ls
       /\ lastWrite' =
            IF r.success
            THEN setItem(lastWrite, getNamespacedKey(inst[i].namespace, key),
                         [op |-> "set", by |-> i, value |-> value, ttl |-> ttl, at |-> now])
            ELSE lastWrite
       /\ UNCHANGED <<now, inst, pending>>

Touch(i, key, ttl, fault) ==
  /\ pending = <<>>
  /\ \E r \in {touch(inst[i], key, ttl, localStorage, now, fault)} :
       LET pk == getNamespacedKey(inst[i].namespace, key)
       IN /\ res' = Called("touch", i, key, r) @@ [ttl |-> ttl, fault |-> fault]
          /\ localStorage' = r.ls
          /\ lastWrite' =
               IF r.success /\ r.data = Bool(TRUE)
               THEN setItem(lastWrite, pk,
                            [op |-> "touch", by |-> lastWrite[pk].by,
                             value |-> lastWrite[pk].value, ttl |-> ttl, at |-> now])
               ELSE lastWrite
          /\ UNCHANGED <<now, inst, pending>>

GetTTL(i, key, fault) ==
  /\ pending = <<>>
  /\ \E r \in {getTTL(inst[i], key, localStorage, now, fault)} :
       /\ res' = Called("getTTL", i, key, r) @@ [fault |-> fault]
       /\ localStorage' = r.ls
       /\ UNCHANGED <<now, inst, lastWrite, pending>>

Has(i, key, fault) ==
  /\ pending = <<>>
  /\ \E r \in {has(inst[i], key, localStorage, now, fault)} :
       /\ res' = Called("has", i, key, r) @@ [fault |-> fault]
       /\ localStorage' = r.ls
       /\ UNCHANGED <<now, inst, lastWrite, pending>>

GetMany(i, ks, fault) ==
  /\ pending = <<>>
  /\ \E r \in {getMany(inst[i], ks, localStorage, now, fault)} :
       /\ res' = Called("getMany", i, ks, r) @@ [fault |-> fault]
       /\ localStorage' = r.ls
       /\ UNCHANGED <<now, inst, lastWrite, pending>>

Remove(i, key, fault) ==
  /\ pending = <<>>
  /\ \E r \in {remove(inst[i], key, localStorage, fault)} :
       /\ res' = Called("remove", i, key, r) @@ [fault |-> fault]
       /\ localStorage' = r.ls
       /\ lastWrite' =
            IF r.success
            THEN removeItem(lastWrite, getNamespacedKey(inst[i].namespace, key))
            ELSE lastWrite
       /\ UNCHANGED <<now, inst, pending>>

Clear(i, fault) ==
  /\ pending = <<>>
  /\ \E r \in {clear(inst[i], localStorage, fault)} :
       /\ res' = Called("clear", i, Undefined, r) @@ [fault |-> fault]
       /\ localStorage' = r.ls
       /\ lastWrite' = Surviving(r.ls)
       /\ UNCHANGED <<now, inst, pending>>

Keys(i, fault) ==
  /\ pending = <<>>
  /\ \E r \in {keys(inst[i], localStorage, fault)} :
       /\ res' = Called("keys", i, Undefined, r) @@ [fault |-> fault]
       /\ UNCHANGED <<localStorage, now, inst, lastWrite, pending>>

Size(i, fault) ==
  /\ pending = <<>>
  /\ \E r \in {size(inst[i], localStorage, fault)} :
       /\ res' = Called("size", i, Undefined, r) @@ [fault |-> fault]
       /\ UNCHANGED <<localStorage, now, inst, lastWrite, pending>>

\* the history after the sets of the entries, in their order
RECURSIVE WrittenBy(_, _, _, _, _)
WrittenBy(history, i, entries, ttl, t) ==
  IF entries = <<>> THEN history
  ELSE WrittenBy(setItem(history, getNamespacedKey(inst[i].namespace, Head(entries).key),
                         [op |-> "set", by |-> i, value |-> Head(entries).value,
                          ttl |-> ttl, at |-> t]),
                 i, Tail(entries), ttl, t)

\* the continuation of the caller's await of the promise a call returned
Resume == [kind |-> "resume"]

\* setMany returns with its promise fulfilled; the continuations of the sets
\* that suspended are in the microtask queue, and the caller's await of the
\* promise queues the caller's continuation behind them
SetMany(i, items, ttl, fault) ==
  /\ pending = <<>>
  /\ \E r \in {setMany(inst[i], items, ttl, localStorage, now, fault)} :
       /\ res' = Called("setMany", i, items, r)
                   @@ [ttl |-> ttl, fault |-> fault, resumed |-> FALSE]
       /\ localStorage' = r.ls
       /\ lastWrite' = WrittenBy(lastWrite, i, r.written, ttl, now)
       /\ pending' = Append([n \in 1..Len(r.jobs) |-> r.jobs[n] @@ [kind |-> "set", id |-> i]],
                            Resume)
       /\ UNCHANGED <<now, inst>>

\* the job at the head of the microtask queue runs: a set goes on from its
\* await to its store write, or the caller of setMany goes on
Microtask ==
  /\ pending # <<>>
  /\ pending' = Tail(pending)
  /\ LET job == Head(pending)
         r == Stored(inst[job.id], job.key, job.serializedData, localStorage, job.fault)
     IN IF job.kind = "set"
        THEN /\ localStorage' = r.ls
             /\ lastWrite' =
                  IF r.success
                  THEN WrittenBy(lastWrite, job.id, <<job>>, job.ttl, job.at)
                  ELSE lastWrite
             /\ UNCHANGED res
        ELSE /\ res' = [res EXCEPT !.resumed = TRUE]
             /\ UNCHANGED <<localStorage, lastWrite>>
  /\ UNCHANGED <<now, inst>>

\* the clock advances by a millisecond, up to max; nothing else moves with it
\* a faulty variant: a timer removes what has expired
TickSweeping(max) ==
  /\ pending = <<>>
  /\ now < max
  /\ now' = now + 1
  /\ res' = NoCall
  /\ localStorage' =
       [p \in {q \in DOMAIN localStorage :
                 ~isExpired(JSONparse(localStorage[q]).val, now + 1)} |->
          localStorage[p]]
  /\ UNCHANGED <<inst, lastWrite, pending>>

Tick(max) ==
  /\ pending = <<>>
  /\ now < max
  /\ now' = now + 1
  /\ res' = NoCall
  /\ UNCHANGED <<localStorage, inst, lastWrite, pending>>

\* compressor i is given the input of the run
CompressData(i) ==
  /\ res.op = "none"
  /\ res' = [op |-> "compressData", id |-> i, input |-> res.input,
             output |-> compressData(inst[i], res.input),
             rebuilds |-> compressCodes(inst[i], res.input).rebuilds,
             codes |-> compressCodes(inst[i], res.input).result]
  /\ UNCHANGED <<localStorage, now, inst, lastWrite, pending>>

\* and then what it gave
DecompressData(i) ==
  /\ res.op = "compressData" /\ res.id = i
  /\ res' = [op |-> "decompressData", id |-> i, input |-> res.output,
             original |-> res.input, rebuilds |-> res.rebuilds, codes |-> res.codes,
             output |-> decompressData(inst[i], res.output)]
  /\ UNCHANGED <<localStorage, now, inst, lastWrite, pending>>

----------------------------------------------------------------------------
(* The instances and the inputs *)

EmptyStore == [p \in {} |-> Null]

InitStore ==
  /\ localStorage = EmptyStore
  /\ lastWrite = EmptyStore
  /\ now = 0
  /\ res = NoCall
  /\ pending = <<>>

(* One instance, one key, a clock that runs past the longest TTL *)

InitTTL ==
  /\ InitStore
  /\ \E d \in DefaultTTLs : inst = [i \in {1} |-> Glancy(<<"a">>, d)]

NextTTL ==
  \/ \E i \in DOMAIN inst, key \in KeysTTL : Get(i, key, NoFault)
  \/ \E i \in DOMAIN inst, key \in KeysTTL, value \in Values, ttl \in TTLsTTL :
       Set(i, key, value, ttl, NoFault)
  \/ \E i \in DOMAIN inst, key \in KeysTTL, ttl \in TTLsTTL : Touch(i, key, ttl, NoFault)
  \/ \E i \in DOMAIN inst, key \in KeysTTL : GetTTL(i, key, NoFault)
  \/ \E i \in DOMAIN inst, key \in KeysTTL : Has(i, key, NoFault)
  \/ \E i \in DOMAIN inst, key \in KeysTTL : GetMany(i, Array(<<key>>), NoFault)
  \/ \E i \in DOMAIN inst, key \in KeysTTL : Remove(i, key, NoFault)
  \/ \E i \in DOMAIN inst : Clear(i, NoFault)
  \/ Tick(MaxClockTTL)

SpecTTL == InitTTL /\ [][NextTTL]_vars

(* Two instances on one store, the second's namespace beginning with the   *)
(* first's name: "a" beside "aa", or "a" beside "a:a"                       *)

Namespaces2 == {<<"a", "a">>, <<"a", ":", "a">>}

\* the keys the application behind each instance uses: the second's is "a",
\* the first's is spelled as the second's namespace
KeysShared(i) == IF i = 1 THEN {Str(inst[2].namespace)} ELSE {Str(<<"a">>)}

Init ==
  /\ InitStore
  /\ \E ns \in Namespaces2 :
       inst = [i \in {1, 2} |-> IF i = 1 THEN Glancy(<<"a">>, Undefined)
                                ELSE Glancy(ns, Undefined)]

Next ==
  \/ \E i \in DOMAIN inst : \E key \in KeysShared(i) : Get(i, key, NoFault)
  \/ \E i \in DOMAIN inst : \E key \in KeysShared(i), value \in Values, ttl \in TTLsShared :
       Set(i, key, value, ttl, NoFault)
  \/ \E i \in DOMAIN inst : \E key \in KeysShared(i), ttl \in TTLsShared :
       Touch(i, key, ttl, NoFault)
  \/ \E i \in DOMAIN inst : \E key \in KeysShared(i) : Remove(i, key, NoFault)
  \/ \E i \in DOMAIN inst : Clear(i, NoFault)
  \/ \E i \in DOMAIN inst : Keys(i, NoFault)
  \/ \E i \in DOMAIN inst : Size(i, NoFault)
  \/ Tick(MaxClock)

Spec == Init /\ [][Next]_vars

(* One compressor, one input, compressed and then decompressed *)

\* the strings of up to MaxInput characters "a" and "b"
Inputs == UNION {[1..n -> Alphabet] : n \in 0..MaxInput}

\* a cap two above the seeds, which a third new phrase overflows; the cap of
\* the documentation's examples; and no cap, as the facade constructs it
DictionarySizes == {Num(258), Num(4096), Undefined}

InitLZW ==
  /\ localStorage = EmptyStore
  /\ lastWrite = EmptyStore
  /\ now = 0
  /\ pending = <<>>
  /\ \E input \in Inputs : res = [op |-> "none", input |-> input]
  /\ \E d \in DictionarySizes : inst = [i \in {1} |-> LZWCompressor([dictionarySize |-> d])]

NextLZW ==
  \/ \E i \in DOMAIN inst : CompressData(i)
  \/ \E i \in DOMAIN inst : DecompressData(i)

SpecLZW == InitLZW /\ [][NextLZW]_vars

(* Two instances on one store and in one namespace, the first plain, the   *)
(* second with a compressor, a cipher, both or neither; the browser may    *)
(* reject the writes of a call, or deny it the store                       *)

Secret == <<"s">>

\* the options the second instance is constructed with
Configurations ==
  {[namespace |-> <<"a">>],
   [namespace |-> <<"a">>, compress |-> Bool(TRUE)],
   [namespace |-> <<"a">>, encryption |-> [type |-> "object", enabled |-> Bool(TRUE), key |-> Secret]],
   [namespace |-> <<"a">>, compress |-> Bool(TRUE),
    encryption |-> [type |-> "object", enabled |-> Bool(TRUE), key |-> Secret]]}

InitFault ==
  /\ InitStore
  /\ \E options \in Configurations :
       inst = [i \in {1, 2} |-> IF i = 1 THEN Glancy(<<"a">>, Undefined)
                                ELSE NewGlancy(options, i)]

\* an empty key, a key that is no string, and a valid one
KeysFault == {Str(<<>>), Null, Str(<<"k">>)}

\* none, a negative one and one that is no integer
TTLsFault == {Undefined, Num(-1), Half(0)}

ValuesFault == {Num(0), Cyclic}

\* what the browser may do to a call that reads, and to one that writes
ReadFaults == {NoFault, Denied}
WriteFaults == {NoFault, QuotaExceeded, Denied}

\* the first instance stands for another part of the application, which
\* stores under the same key without compressor and cipher
NextFault ==
  \/ \E value \in Values : Set(1, Str(<<"k">>), value, Undefined, NoFault)
  \/ \E key \in KeysFault, fault \in ReadFaults : Get(2, key, fault)
  \/ \E key \in KeysFault, value \in ValuesFault, ttl \in TTLsFault, fault \in WriteFaults :
       Set(2, key, value, ttl, fault)
  \/ \E key \in KeysFault, ttl \in TTLsFault, fault \in WriteFaults :
       Touch(2, key, ttl, fault)
  \/ \E key \in KeysFault, fault \in ReadFaults : GetTTL(2, key, fault)
  \/ \E key \in KeysFault, fault \in ReadFaults : Has(2, key, fault)
  \/ \E key \in KeysFault, fault \in ReadFaults : Remove(2, key, fault)
  \/ \E ks \in {Null, Array(<<Str(<<"k">>)>>)}, fault \in ReadFaults : GetMany(2, ks, fault)
  \/ \E items \in {Null, Record(<<[key |-> Str(<<"k">>), value |-> Num(0)]>>)},
        fault \in WriteFaults : SetMany(2, items, Undefined, fault)
  \/ Microtask
  \/ \E fault \in ReadFaults : Clear(2, fault)
  \/ \E fault \in ReadFaults : Keys(2, fault)
  \/ \E fault \in ReadFaults : Size(2, fault)
  \/ Tick(MaxClockFault)

SpecFault == InitFault /\ [][NextFault]_vars

(* Batches: two instances on one store and in one namespace, the first     *)
(* with a cipher, the second with or without a compressor                  *)

InitBatch ==
  /\ InitStore
  /\ \E options \in {[namespace |-> <<"a">>],
                     [namespace |-> <<"a">>, compress |-> Bool(TRUE)]} :
       inst = [i \in {1, 2} |->
                 IF i = 1
                 THEN NewGlancy([namespace |-> <<"a">>,
                                 encryption |-> [type |-> "object", enabled |-> Bool(TRUE),
                                                 key |-> Secret]], i)
                 ELSE NewGlancy(options, i)]

\* the key "null" is a valid key
KeyNull == Str(<<"n", "u", "l", "l">>)

\* the keys asked for in one getMany: a valid one, an empty one and one that
\* is no string
KeysBatch == {KeyNull, Str(<<>>), Null}

\* the arrays of one to MaxBatch of them
KeyArrays == {Array(ks) : ks \in UNION {[1..n -> KeysBatch] : n \in 1..MaxBatch}}

\* objects of one and of two properties; a property named "" is an item with
\* an invalid key
ItemRecords ==
  {Record(<<[key |-> KeyNull, value |-> Num(0)]>>),
   Record(<<[key |-> Str(<<>>), value |-> Num(0)]>>),
   Record(<<[key |-> Str(<<>>), value |-> Num(0)],
            [key |-> KeyNull, value |-> Str(<<"h", "i">>)]>>),
   Record(<<[key |-> KeyNull, value |-> Str(<<"h", "i">>)],
            [key |-> Str(<<"k">>), value |-> Num(0)]>>)}

\* setMany with no ttl, with an invalid one, and with no room in the store
BatchCalls ==
  {[ttl |-> Undefined, fault |-> NoFault],
   [ttl |-> Num(-1), fault |-> NoFault],
   [ttl |-> Undefined, fault |-> QuotaExceeded]}

NextBatch ==
  \/ Set(1, KeyNull, Num(0), Undefined, NoFault)
  \/ \E ttl \in TTLsShared : Set(2, KeyNull, Num(0), ttl, NoFault)
  \/ \E ks \in KeyArrays : GetMany(2, ks, NoFault)
  \/ \E items \in ItemRecords, call \in BatchCalls : SetMany(2, items, call.ttl, call.fault)
  \/ Microtask
  \/ Tick(MaxClockBatch)

SpecBatch == InitBatch /\ [][NextBatch]_vars

----------------------------------------------------------------------------
(* What the claims speak of *)

\* the physical key of the call recorded in res
ResKey == getNamespacedKey(inst[res.id].namespace, res.key)

\* the item stored under physical key p of store ls
ItemAt(ls, p) == JSONparse(ls[p]).val

HasTTL(item) == Member(item, "ttl") # Undefined

\* "ttl is present and now - timestamp > ttl"
Elapsed(item, t) == HasTTL(item) /\ t - item.timestamp.val > item.ttl.val

\* the same, for a ttl other than zero
ElapsedNonZero(item, t) == Elapsed(item, t) /\ item.ttl.val # 0

\* the step is a call op(key) through instance i
IsCall(op, i, key) == res'.op = op /\ res'.id = i /\ res'.key = key

----------------------------------------------------------------------------
(* C1..C10 *)

\* C1: round trip.  A get(k) issued after set(k, v, t), with no write to k in
\* between and less than t milliseconds after the set, answers success = true
\* with data = v.
C1_RoundTrip ==
  (res.op = "get" /\ ResKey \in DOMAIN lastWrite) =>
    LET w == lastWrite[ResKey]
    IN (w.op = "set" /\ w.ttl # Undefined /\ now - w.at < w.ttl.val) =>
         (res.success /\ res.data = w.value)

\* a get answers with the value set nine milliseconds earlier under a ttl of
\* ten, on an instance whose default TTL is shorter
C1_Witness ==
  /\ res.op = "get" /\ ResKey \in DOMAIN lastWrite
  /\ lastWrite[ResKey].op = "set" /\ lastWrite[ResKey].ttl = Num(10)
  /\ now - lastWrite[ResKey].at = 9
  /\ inst[res.id].defaultTTL = Num(3)
  /\ res.data = lastWrite[ResKey].value

\* what get, has and getMany answer for key through instance i in a step that
\* finds the item gone: get success = true with data null, has false, getMany null
AnswersAbsent(i, key) ==
  /\ IsCall("get", i, key) => (res'.success /\ res'.data = Null)
  /\ IsCall("has", i, key) => res'.data = Bool(FALSE)
  /\ (res'.op = "getMany" /\ res'.id = i /\ String(key) \in DOMAIN res'.data) =>
       res'.data[String(key)] = Null

\* C2 as stated: no get, getMany or has returns (or reports present) an item
\* with now - timestamp > ttl; get answers success = true with data null.
C2_ExpiredNeverReturned ==
  [][\A i \in DOMAIN inst, key \in KeysTTL :
       LET p == getNamespacedKey(inst[i].namespace, key)
       IN (p \in DOMAIN localStorage /\ Elapsed(ItemAt(localStorage, p), now)) =>
            AnswersAbsent(i, key)]_vars

\* C2 amended: the same for an item whose ttl is not zero (a ttl of zero never
\* expires).
C2_NonZeroExpiredNeverReturned ==
  [][\A i \in DOMAIN inst, key \in KeysTTL :
       LET p == getNamespacedKey(inst[i].namespace, key)
       IN (p \in DOMAIN localStorage /\ ElapsedNonZero(ItemAt(localStorage, p), now)) =>
            AnswersAbsent(i, key)]_vars

\* a has call has found the item of the key expired and reported it absent
C2_Witness ==
  /\ res.op = "has" /\ res.data = Bool(FALSE)
  /\ ResKey \in DOMAIN lastWrite /\ ResKey \notin DOMAIN localStorage
  /\ lastWrite[ResKey].ttl = Num(10) /\ now - lastWrite[ResKey].at = 11

\* C4 as stated: an item is expired iff its ttl is present and
\* now - timestamp > ttl.
C4_ExpiryPredicate ==
  \A p \in DOMAIN localStorage :
    isExpired(ItemAt(localStorage, p), now) <=> Elapsed(ItemAt(localStorage, p), now)

\* C4 amended: an item is expired iff its ttl is present and not zero and
\* now - timestamp > ttl; at now = timestamp + ttl it is not expired, and an
\* item with no ttl or a ttl of zero never is.
C4_ExpiryPredicateNonZero ==
  \A p \in DOMAIN localStorage :
    LET item == ItemAt(localStorage, p)
    IN /\ isExpired(item, now) <=> ElapsedNonZero(item, now)
       /\ (HasTTL(item) /\ now = item.timestamp.val + item.ttl.val) => ~isExpired(item, now)
       /\ ~HasTTL(item) => ~isExpired(item, now)

\* an item stands at exactly now = timestamp + ttl, beside none: the last
\* instant at which it is not expired
C4_Witness ==
  \E p \in DOMAIN localStorage :
    LET item == ItemAt(localStorage, p)
    IN /\ HasTTL(item) /\ item.ttl.val = 10
       /\ now = item.timestamp.val + item.ttl.val
       /\ item.timestamp.val > 0

\* what C5 says of a get that follows a touch(k, t) made at time T, for the
\* touches whose t passes the test: the item is live exactly while now - T <= t
LiveAfterTouch(counts(_)) ==
  (res.op = "get" /\ ResKey \in DOMAIN lastWrite) =>
    LET w == lastWrite[ResKey]
    IN (w.op = "touch" /\ w.ttl # Undefined /\ counts(w.ttl)) =>
         /\ res.success
         /\ res.data # Null <=> now - w.at <= w.ttl.val
         /\ res.data # Null => res.data = w.value

\* a touch that answers true has stamped the item with now and the new ttl
TouchRestarts ==
  (res.op = "touch" /\ res.data = Bool(TRUE)) =>
    LET item == ItemAt(localStorage, ResKey)
    IN /\ item.timestamp = Num(now)
       /\ Member(item, "ttl") = OrElse(lastWrite[ResKey].ttl, inst[res.id].defaultTTL)

AnyTTL(ttl) == TRUE
PositiveTTL(ttl) == ttl.val > 0

\* C5 as stated: touch(k, t) answers true and restarts the TTL from the touch
\* time T; afterwards the item is live exactly while now - T <= t.
C5_TouchExtends == TouchRestarts /\ LiveAfterTouch(AnyTTL)

\* C5 amended: the same for t > 0 (touch(k, 0) gives the item the default TTL,
\* or no expiry when there is none).
C5_TouchExtendsPositive == TouchRestarts /\ LiveAfterTouch(PositiveTTL)

\* the test's run in units of 100 ms: touch(k, 10) at 5, and the get at 16,
\* eleven after the touch, finds the item expired
C5_Witness ==
  /\ res.op = "get" /\ res.message = "Item expired" /\ now = 16
  /\ ResKey \in DOMAIN lastWrite
  /\ lastWrite[ResKey].op = "touch" /\ lastWrite[ResKey].ttl = Num(10)
  /\ lastWrite[ResKey].at = 5

\* the same run one step earlier: the get at 12, past the ttl of the set at 0,
\* still answers with the value
C5_WitnessLive ==
  /\ res.op = "get" /\ res.data # Null /\ now = 12
  /\ ResKey \in DOMAIN lastWrite
  /\ lastWrite[ResKey].op = "touch" /\ lastWrite[ResKey].ttl = Num(10)
  /\ lastWrite[ResKey].at = 5

\* C6: touch(k, ttl) on an item whose TTL has elapsed answers data false,
\* deletes the entry, and does not revive the item.
C6_TouchExpired ==
  [][\A i \in DOMAIN inst, key \in KeysTTL :
       LET p == getNamespacedKey(inst[i].namespace, key)
       IN (/\ IsCall("touch", i, key)
           /\ p \in DOMAIN localStorage
           /\ ElapsedNonZero(ItemAt(localStorage, p), now)) =>
            (res'.data = Bool(FALSE) /\ p \notin DOMAIN localStorage')]_vars

\* C7: getTTL(k) answers ttl - (now - timestamp), between 0 and ttl, for a live
\* item with a TTL, and null for an absent key, an item with no TTL or an
\* expired item; never a negative number.
C7_GetTTL ==
  (res.op = "getTTL" /\ res.success) =>
    IF ResKey \notin DOMAIN localStorage THEN res.data = Null
    ELSE LET item == ItemAt(localStorage, ResKey)
         IN IF ~Truthy(Member(item, "ttl")) \/ ElapsedNonZero(item, now)
            THEN res.data = Null
            ELSE /\ res.data = Num(item.ttl.val - (now - item.timestamp.val))
                 /\ res.data.val >= 0 /\ res.data.val <= item.ttl.val

\* the strings keys() lists for instance i over store ls
Listed(i, ls) == LET d == keys(inst[i], ls, NoFault).data IN {d[p] : p \in DOMAIN d}

\* the entries of store ls named '{namespace}:{k}' for instance i's namespace
OwnEntries(i, ls) == {p \in DOMAIN ls : StartsWith(p, inst[i].namespace \o Colon)}

\* the logical key k of the entry '{namespace}:{k}'
LogicalKey(i, p) == SubSeq(p, Len(inst[i].namespace) + 2, Len(p))

\* C3: a get(k) that finds the item expired removes the entry
\* '{namespace}:{k}' before it returns, so that afterwards k is not listed by
\* keys() and not counted by size().
C3_LazyEviction ==
  [][\A i \in DOMAIN inst : \A key \in KeysShared(i) :
       LET p == getNamespacedKey(inst[i].namespace, key)
       IN (IsCall("get", i, key) /\ res'.message = "Item expired") =>
            /\ p \in DOMAIN localStorage /\ p \notin DOMAIN localStorage'
            /\ key.val \notin Listed(i, localStorage')
            /\ size(inst[i], localStorage', NoFault).data.val =
                 size(inst[i], localStorage, NoFault).data.val
                   - (Len(p) + TextLength(localStorage[p]))]_vars

\* the part of C3 that is about the store alone: the entry is gone, and only it
C3_EntryRemoved ==
  [][\A i \in DOMAIN inst : \A key \in KeysShared(i) :
       LET p == getNamespacedKey(inst[i].namespace, key)
       IN (IsCall("get", i, key) /\ res'.message = "Item expired") =>
            /\ p \in DOMAIN localStorage
            /\ localStorage' = removeItem(localStorage, p)]_vars

\* what instance j reads under each of its keys from store ls at time t
Reads(j, ls, t) == [key \in KeysShared(j) |-> get(inst[j], key, ls, t, NoFault).data]

\* C8: through two instances with different namespaces on one store, a get
\* through one never returns a value written through the other, and a set,
\* touch or remove through one never changes what the other reads.
C8_NamespaceIsolation ==
  [][\A i \in DOMAIN inst :
       /\ \A key \in KeysShared(i) :
            (IsCall("get", i, key) /\ res'.data # Null) =>
              lastWrite[getNamespacedKey(inst[i].namespace, key)].by = i
       /\ (res'.op \in {"set", "touch", "remove"} /\ res'.id = i) =>
            \A j \in DOMAIN inst \ {i} :
              Reads(j, localStorage', now) = Reads(j, localStorage, now)]_vars

\* C9: clear() removes every entry of the calling instance's namespace and
\* leaves every entry of any other namespace as it was, also that of a
\* namespace whose name begins with the calling namespace's name.
C9_ClearOwnNamespaceOnly ==
  [][\A i \in DOMAIN inst :
       (res'.op = "clear" /\ res'.id = i) =>
         /\ OwnEntries(i, localStorage') = {}
         /\ \A p \in DOMAIN localStorage \ OwnEntries(i, localStorage) :
              p \in DOMAIN localStorage' /\ localStorage'[p] = localStorage[p]]_vars

\* C10: keys() returns exactly the logical keys k for which an entry
\* '{namespace}:{k}' is in the store, one string for each, and no key of another
\* namespace.
C10_KeysExact ==
  (res.op = "keys") =>
    /\ {res.data[p] : p \in DOMAIN res.data} =
         {LogicalKey(res.id, p) : p \in OwnEntries(res.id, localStorage)}
    /\ DOMAIN res.data = OwnEntries(res.id, localStorage)

----------------------------------------------------------------------------
(* C11..C13: the compressor *)

\* the decompression of what compressData gave is the input, character for
\* character
RoundTrips == res.output = Ok([kind |-> "chars", units |-> res.original])

\* C11: for every non-empty string s of characters with codes 0..255 whose
\* compression triggers no rebuild of the dictionary,
\* decompressData(compressData(s)) equals s exactly.
C11_RoundTripBelowCap ==
  (res.op = "decompressData" /\ res.original # <<>> /\ res.rebuilds = 0) => RoundTrips

\* the same for the inputs whose codes fill the 16-bit units of the packed
\* string exactly or leave less than one code's width unused: this holds
C11_RoundTripAligned ==
  (/\ res.op = "decompressData" /\ res.original # <<>> /\ res.rebuilds = 0
   /\ inst[res.id].dictionarySize # Undefined
   /\ LET width == bits(inst[res.id]).val
          used == width * Len(res.codes)
      IN 16 * ((used + 15) \div 16) - used < width) => RoundTrips

\* C12: for every string s of characters with codes 0..255 whose compression
\* reaches the dictionary cap and forces at least one rebuild,
\* decompressData(compressData(s)) equals s.
C12_RoundTripAcrossRebuild ==
  (res.op = "decompressData" /\ res.rebuilds > 0) => RoundTrips

\* what the empty input compresses to: no code, and no packed character
EmptyStream ==
  (res.op \in {"compressData", "decompressData"}
     /\ (IF res.op = "compressData" THEN res.input ELSE res.original) = <<>>) =>
    /\ res.codes = <<>>
    /\ (IF res.op = "compressData" THEN res.output ELSE res.input).obj.data = StrUnits(<<>>)

\* C13: compressData("") produces an empty code stream (empty packed data),
\* and decompressData applied to that output returns the empty string.
C13_EmptyInput ==
  /\ EmptyStream
  /\ (res.op = "decompressData" /\ res.original = <<>>) => RoundTrips

----------------------------------------------------------------------------
(* C14..C17: the facade's pipeline and its failures *)

\* "the key is empty or not a string"
EmptyOrNoString(key) == key.type # "string" \/ key.val = <<>>

\* "a ttl is provided that is negative or not an integer"
NegativeOrNoInteger(ttl) ==
  ttl # Undefined /\ (ttl.type # "number" \/ DOMAIN ttl # {"type", "val"} \/ ttl.val < 0)

\* C14: with the facade constructed with compress: true and no
\* compressionLevel, a get(k) after set(k, v) answers success = true with
\* data = v.
C14_CompressedRoundTrip ==
  (/\ res.op = "get" /\ res.fault = NoFault
   /\ inst[res.id].compression # Undefined /\ inst[res.id].encryption = Undefined
   /\ ResKey \in DOMAIN lastWrite
   /\ lastWrite[ResKey].by = res.id /\ lastWrite[ResKey].op = "set") =>
    (res.success /\ res.data = lastWrite[ResKey].value)

C16_WitnessStore ==
  /\ res.op = "getTTL" /\ res.key = Str(<<"k">>) /\ res.fault = Denied
  /\ ~res.success /\ res.message = SecurityError.message

----------------------------------------------------------------------------
(* C18..C20: the batches *)

\* what get alone reports for key: its data, or null for a failure
Alone(i, key, ls, t) ==
  LET response == get(inst[i], key, ls, t, NoFault)
  IN IF response.success THEN response.data ELSE Null

\* C18: getMany(keys) always answers success = true with a mapping that holds
\* one entry per requested key; a key that is invalid, absent, expired or
\* whose entry cannot be decoded maps to null, and the result reported for a
\* key is the same whatever the other keys of the batch are.
C18_GetManyIsolates ==
  [][(res'.op = "getMany" /\ res'.key.type = "array") =>
       LET ks == res'.key.elements
       IN /\ res'.success
          /\ Cardinality(DOMAIN res'.data) = Cardinality({ks[n] : n \in DOMAIN ks})
          /\ \A n \in DOMAIN ks :
               /\ String(ks[n]) \in DOMAIN res'.data
               /\ res'.data[String(ks[n])] = Alone(res'.id, ks[n], localStorage, now)]_vars

\* the same for the batches whose keys are all strings: this holds
C18_GetManyIsolatesStrings ==
  [][(/\ res'.op = "getMany" /\ res'.key.type = "array"
      /\ \A n \in DOMAIN res'.key.elements : res'.key.elements[n].type = "string") =>
       LET ks == res'.key.elements
       IN /\ res'.success
          /\ Cardinality(DOMAIN res'.data) = Cardinality({ks[n] : n \in DOMAIN ks})
          /\ \A n \in DOMAIN ks :
               /\ String(ks[n]) \in DOMAIN res'.data
               /\ res'.data[String(ks[n])] = Alone(res'.id, ks[n], localStorage, now)]_vars

\* the set of some item of the batch fails: its key or the ttl is invalid, or
\* the store has no room
SomeSetFails(items, ttl, fault) ==
  \E n \in DOMAIN items.entries :
    \/ EmptyOrNoString(items.entries[n].key)
    \/ NegativeOrNoInteger(ttl)
    \/ fault = QuotaExceeded

\* C19: if the set of some item of setMany(items, ttl) fails (invalid key,
\* invalid ttl, or store capacity exceeded), setMany returns a failure result
\* carrying the first failing key's error or an aggregate, not success.
C19_SetManyReportsFailure ==
  (res.op = "setMany" /\ res.key.type = "object"
     /\ SomeSetFails(res.key, res.ttl, res.fault)) => ~res.success

\* the caller of setMany(items) has gone on after its await, and the store
\* took the writes
Completed ==
  /\ res.op = "setMany" /\ res.resumed /\ res.key.type = "object"
  /\ res.ttl = Undefined /\ res.fault = NoFault

\* C20: when the promise returned by setMany(items) resolves, every item with
\* a valid key has been written to the store, so that an immediately
\* following get(k) returns items[k] for each k, also when compression is
\* enabled and each inner set suspends at an await before its store write.
C20_SetManyCompletion ==
  Completed =>
    \A n \in DOMAIN res.key.entries :
      LET entry == res.key.entries[n]
          response == get(inst[res.id], entry.key, localStorage, now, NoFault)
      IN ~EmptyOrNoString(entry.key) =>
           (response.success /\ response.data = entry.value)

\* the part of C20 that is about the order of the steps: when the caller goes
\* on, no set of the batch is still suspended and each entry with a valid key
\* is in the store as that set wrote it.  This holds.
C20_WrittenWhenResumed ==
  Completed =>
    /\ pending = <<>>
    /\ \A n \in DOMAIN res.key.entries :
         LET entry == res.key.entries[n]
             p == getNamespacedKey(inst[res.id].namespace, entry.key)
         IN ~EmptyOrNoString(entry.key) =>
              /\ p \in DOMAIN localStorage
              /\ localStorage[p] =
                   Encrypted(inst[res.id],
                             Compressed(inst[res.id],
                                        NewItem(inst[res.id], entry.value, Undefined, now)))

\* the promise of setMany is fulfilled, and the sets of the batch are still
\* suspended before their store writes
C20_FulfilledBeforeWritten ==
  /\ res.op = "setMany" /\ ~res.resumed /\ res.success
  /\ \E n \in DOMAIN pending : pending[n].kind = "set"

----------------------------------------------------------------------------
(* C21..C23: the order of the pipeline, and the cipher *)

\* instance i has a compressor and a cipher
BothEnabled(i) == inst[i].compression # Undefined /\ inst[i].encryption # Undefined

\* encrypt(compress(serialize(item))) under the compressor and the cipher of
\* instance i
Pipelined(i, item) ==
  encrypt(inst[i].encryption,
          compressData(inst[i].compression, Units(JSONstringify(item))))

\* the item of the last write under physical key p
WrittenItem(p) ==
  [value |-> Nullish(lastWrite[p].value, EmptyObject),
   timestamp |-> Num(lastWrite[p].at),
   ttl |-> OrElse(lastWrite[p].ttl, inst[lastWrite[p].by].defaultTTL)]

\* what set and touch have written through an instance with both is the
\* ciphertext of the compressed text of the serialized item
WritesInOrder ==
  \A p \in DOMAIN lastWrite' \cap DOMAIN localStorage' :
    BothEnabled(lastWrite'[p].by) => localStorage'[p] = Pipelined(lastWrite'[p].by, WrittenItem(p)')

\* a get, touch or getTTL through an instance with both that finds a text
\* fails with the error of decrypt if decrypt fails, else with that of
\* decompressData on the deciphered text if that fails, else with that of
\* JSON.parse on the decompressed text if that fails
ReadsInOrder ==
  LET i == res'.id
      p == getNamespacedKey(inst[i].namespace, res'.key)
      decrypted == decrypt(inst[i].encryption, localStorage[p])
      data == decompressData(inst[i].compression, decrypted.val)
      item == JSONparse(data.val)
      failed == IF decrypted.thrown THEN decrypted
                ELSE IF data.thrown THEN data
                ELSE item
  IN (/\ res'.op \in {"get", "touch", "getTTL"}
      /\ BothEnabled(i) /\ res'.fault = NoFault
      /\ ~EmptyOrNoString(res'.key)
      /\ res'.op = "touch" => ~NegativeOrNoInteger(res'.ttl)
      /\ p \in DOMAIN localStorage) =>
       (failed.thrown => ~res'.success /\ res'.message = failed.message)

\* C21: with compression and encryption both enabled, every write (set and
\* touch) stores encrypt(compress(serialize(item))) and every read (get,
\* touch, getTTL) first decrypts, then decompresses, then parses.
C21_PipelineOrder == [][WritesInOrder /\ ReadsInOrder]_vars

\* a get through the instance with both has deciphered the text the instance
\* wrote itself, and has gone on to decompress it
C21_Witness ==
  /\ res.op = "get" /\ BothEnabled(res.id) /\ res.fault = NoFault
  /\ ResKey \in DOMAIN localStorage /\ lastWrite[ResKey].by = res.id
  /\ localStorage[ResKey] = Pipelined(res.id, WrittenItem(ResKey))
  /\ ~decrypt(inst[res.id].encryption, localStorage[ResKey]).thrown

\* the same instance has failed at decrypt on the text another wrote
C21_WitnessForeign ==
  /\ res.op = "touch" /\ BothEnabled(res.id) /\ res.fault = NoFault
  /\ ResKey \in DOMAIN localStorage /\ lastWrite[ResKey].by # res.id
  /\ res.message = decrypt(inst[res.id].encryption, localStorage[ResKey]).message

----------------------------------------------------------------------------
(* Ciphers: three instances on one store and in one namespace.  The first  *)
(* two are constructed from the same options, the third from another key.  *)
(* The store is open to every script of the origin, so a text may change   *)
(* between a write and a read.                                             *)

OtherSecret == <<"t">>

\* a string long enough for two whole cipher blocks to lie inside it
LongValue == Str([n \in 1..48 |-> "a"])

ValuesCipher == {Num(0), LongValue}

\* the class of AESEncryption.ts in use, and for the CryptoJS class what the
\* bytes deciphered under another passphrase come to
CipherBuilds ==
  {[class |-> "gcm"],
   [class |-> "cryptojs", garbage |-> "malformed"],
   [class |-> "cryptojs", garbage |-> "empty"]}

\* new Glancy({ namespace: 'a', encryption: { enabled: true, key } })
CipherInstance(build, key, salt) ==
  LET options == [namespace |-> <<"a">>,
                  encryption |-> [type |-> "object", enabled |-> Bool(TRUE), key |-> key]]
  IN IF build.class = "gcm" THEN NewGlancy(options, salt)
     ELSE [NewGlancy(options, salt) EXCEPT
             !.encryption = AESEncryptionCryptoJS(options.encryption, build.garbage)]

\* can one bit of the ciphertext be flipped so that the text still spells an
\* item?  The block before the flipped bit deciphers to other bytes, so it
\* and the block of the bit must lie inside a string: bytes 17 to 48 of an
\* item text whose string value begins at byte 11
Alterable(text) ==
  /\ text.kind = "aes" /\ text.data.kind = "json"
  /\ "value" \in DOMAIN text.data.obj
  /\ text.data.obj.value.type = "string"
  /\ Len(text.data.obj.value.val) >= 38

\* the string with characters 7 to 22 replaced and one bit of character 23
\* flipped
AlteredValue(value) ==
  Str([n \in DOMAIN value.val |-> IF n \in 7..23 THEN "b" ELSE value.val[n]])

\* what localStorage.setItem does to a text in the hands of another script:
\* it is cut to nothing, a bit is flipped where the text no longer spells
\* anything, or a bit is flipped inside the string value
Tampered(text, how) ==
  CASE how = "emptied" -> EmptyText
    [] how = "garbled" -> text @@ [tampered |-> TRUE, garbled |-> TRUE]
    [] how = "altered" ->
         [text EXCEPT !.data.obj.value = AlteredValue(@)] @@ [tampered |-> TRUE]

Tampers == {"emptied", "garbled", "altered"}

\* another script of the origin rewrites the text under physical key p
Tamper(p, how) ==
  /\ pending = <<>>
  /\ p \in DOMAIN localStorage
  /\ localStorage[p].kind = "aes" /\ "tampered" \notin DOMAIN localStorage[p]
  /\ how = "altered" => Alterable(localStorage[p])
  /\ localStorage' = [localStorage EXCEPT ![p] = Tampered(@, how)]
  /\ lastWrite' = [lastWrite EXCEPT ![p] = @ @@ [tampered |-> how]]
  /\ res' = NoCall
  /\ UNCHANGED <<now, inst, pending>>

InitCipher ==
  /\ InitStore
  /\ \E build \in CipherBuilds :
       inst = [i \in {1, 2, 3} |->
                 CipherInstance(build, IF i = 3 THEN OtherSecret ELSE Secret, i)]

NextCipher ==
  \/ \E i \in {1, 3}, v \in ValuesCipher : Set(i, Str(<<"k">>), v, Undefined, NoFault)
  \/ \E i \in {1, 2, 3} : Get(i, Str(<<"k">>), NoFault)
  \/ \E how \in Tampers : Tamper(<<"a", ":", "k">>, how)
  \/ Tick(MaxClockCipher)

SpecCipher == InitCipher /\ [][NextCipher]_vars

----------------------------------------------------------------------------
(* C22, C23: the cipher between instances, and texts that were changed *)

\* options.encryption.key of instance i
Passphrase(i) == inst[i].encryption.key[1]

\* the text under physical key p is the one the last write stored
Untouched(p) == "tampered" \notin DOMAIN lastWrite[p]

\* the last call was a get by an instance other than the writer of the entry
ForeignGet ==
  /\ res.op = "get" /\ res.fault = NoFault
  /\ ResKey \in DOMAIN lastWrite
  /\ lastWrite[ResKey].by # res.id

\* C22: an entry written by one instance under key K is read back by any
\* other instance of the same namespace constructed with the same key K
C22_SameKeyReadsBack ==
  (ForeignGet /\ Passphrase(lastWrite[ResKey].by) = Passphrase(res.id)
     /\ Untouched(ResKey)) =>
    (res.success /\ res.data = lastWrite[ResKey].value)

\* with the CryptoJS class the entry is read back
C22_ReadsBackCryptoJS ==
  "garbage" \in DOMAIN inst[1].encryption => C22_SameKeyReadsBack

\* the entry is read back through CryptoJS
C22_WitnessCryptoJS ==
  /\ ForeignGet /\ Passphrase(lastWrite[ResKey].by) = Passphrase(res.id)
  /\ Untouched(ResKey)
  /\ "garbage" \in DOMAIN inst[1].encryption
  /\ res.success /\ res.data = LongValue

\* the last call was a get of an entry written under another key, or of a
\* text that was changed after it was written
WrongKeyOrTampered ==
  /\ res.op = "get" /\ res.fault = NoFault
  /\ ResKey \in DOMAIN lastWrite
  /\ \/ Passphrase(lastWrite[ResKey].by) # Passphrase(res.id)
     \/ ~Untouched(ResKey)

\* C23: a get of a text enciphered under another key, or changed after it
\* was written, answers success = false with data null, never a value
C23_WrongKeyOrTamperDetected ==
  WrongKeyOrTampered => (~res.success /\ res.data = Null)

\* with the GCM class no get of such a text answers a value, and every one
\* fails unless the text was cut to nothing
C23_DetectedGCM ==
  (WrongKeyOrTampered /\ "garbage" \notin DOMAIN inst[1].encryption) =>
    /\ res.data = Null
    /\ res.success => (~Untouched(ResKey) /\ lastWrite[ResKey].tampered = "emptied"
                        /\ res.message = "Item not found")

\* with the CryptoJS class a get answers a value that was never set
C23_WrongValueCryptoJS ==
  /\ WrongKeyOrTampered /\ res.success
  /\ lastWrite[ResKey].value = LongValue
  /\ res.data = AlteredValue(LongValue)
  /\ res.data # LongValue

----------------------------------------------------------------------------
(* C24, C25: the default TTL, and an explicit ttl of zero *)

\* the last call was a get of a key last written by set(k, v, ttl)
GetAfterSet(ttl) ==
  /\ res.op = "get" /\ ResKey \in DOMAIN lastWrite
  /\ lastWrite[ResKey].op = "set" /\ lastWrite[ResKey].ttl = ttl

\* the last call was a set(k, v) that stored an item with the default TTL
StoresDefault ==
  (res.op = "set" /\ res.success /\ res.ttl = Undefined) =>
    Member(ItemAt(localStorage, ResKey), "ttl") = inst[res.id].defaultTTL

\* a get after set(k, v) answers v until more than the default TTL has
\* elapsed since the set, and data null from then on
LiveForDefault ==
  IF now - lastWrite[ResKey].at <= inst[res.id].defaultTTL.val
  THEN res.success /\ res.data = lastWrite[ResKey].value
  ELSE res.success /\ res.data = Null

\* C24 as stated: on an instance constructed with defaultTTL = d, set(k, v)
\* stores an item with ttl = d; get(k) returns v while now - timestamp <= d
\* and not-found once more than d has elapsed.
C24_DefaultTTL ==
  inst[1].defaultTTL # Undefined =>
    /\ StoresDefault
    /\ GetAfterSet(Undefined) => LiveForDefault

\* C24 amended: the same for d > 0; with d = 0 the item is stored with ttl 0
\* and get returns v at every later time.
C24_DefaultTTLPositive ==
  inst[1].defaultTTL # Undefined =>
    /\ StoresDefault
    /\ GetAfterSet(Undefined) =>
         IF inst[res.id].defaultTTL.val > 0 THEN LiveForDefault
         ELSE res.success /\ res.data = lastWrite[ResKey].value

\* a get four milliseconds after a set(k, v) under a default TTL of three
\* finds the item expired
C24_Witness ==
  /\ GetAfterSet(Undefined) /\ inst[res.id].defaultTTL = Num(3)
  /\ now - lastWrite[ResKey].at = 4
  /\ res.success /\ res.data = Null /\ res.message = "Item expired"

\* a get three milliseconds after the set still answers the value
C24_WitnessLive ==
  /\ GetAfterSet(Undefined) /\ inst[res.id].defaultTTL = Num(3)
  /\ now - lastWrite[ResKey].at = 3
  /\ res.data = lastWrite[ResKey].value

\* C25: set(k, v, 0) stores an item that get(k) returns at every later time,
\* also on an instance constructed with a defaultTTL.
C25_ZeroNeverExpires ==
  GetAfterSet(Num(0)) => (res.success /\ res.data = lastWrite[ResKey].value)

\* without a default TTL, and with a default of zero, it does
C25_ZeroNeverExpiresNoDefault ==
  (GetAfterSet(Num(0)) /\ inst[res.id].defaultTTL # Num(3)) =>
    (res.success /\ res.data = lastWrite[ResKey].value)

\* a get long after set(k, v, 0) answers the value, where there is no default
C25_WitnessNoDefault ==
  /\ GetAfterSet(Num(0)) /\ inst[res.id].defaultTTL = Undefined
  /\ now - lastWrite[ResKey].at = MaxClockTTL
  /\ res.data = lastWrite[ResKey].value

\* set(k, v, 0) was given the default TTL of three and has expired
C25_ExpiredUnderDefault ==
  /\ GetAfterSet(Num(0)) /\ inst[res.id].defaultTTL = Num(3)
  /\ now - lastWrite[ResKey].at = 4
  /\ res.data = Null /\ res.message = "Item expired"

----------------------------------------------------------------------------
(* Entries: one plain instance, two keys and the empty key, values that    *)
(* include null, a clock that runs past the TTL, and a store that may deny *)
(* a has its access.                                                       *)

KeysEntry == {Str(<<>>), Str(<<"k">>), Str(<<"j">>)}

ValuesEntry == {Null, Num(0)}

TTLsEntry == {Undefined, Num(1)}

InitEntry ==
  /\ InitStore
  /\ inst = [i \in {1} |-> Glancy(<<"a">>, Undefined)]

NextEntry ==
  \/ \E key \in KeysEntry, value \in ValuesEntry, ttl \in TTLsEntry :
       Set(1, key, value, ttl, NoFault)
  \/ \E key \in KeysEntry : Get(1, key, NoFault)
  \/ \E key \in KeysEntry, fault \in ReadFaults : Has(1, key, fault)
  \/ \E key \in KeysEntry : Remove(1, key, NoFault)
  \/ Clear(1, NoFault)
  \/ Keys(1, NoFault)
  \/ Size(1, NoFault)
  \/ Tick(MaxClockEntry)

SpecEntry == InitEntry /\ [][NextEntry]_vars

----------------------------------------------------------------------------
(* C26..C28, C30: null values, has, remove, and the passing of time *)

\* C26: after set(k, null), get(k) returns data null: the stored value is
\* not replaced by another value
C26_NullRoundTrip ==
  (GetAfterSet(Undefined) /\ lastWrite[ResKey].value = Null) =>
    (res.success /\ res.data = Null)

\* every other value set is the value get returns
C26_RoundTripNotNull ==
  (GetAfterSet(Undefined) /\ lastWrite[ResKey].value # Null) =>
    (res.success /\ res.data = lastWrite[ResKey].value)

\* get answers an empty object for the null that was set
C26_NullReadAsEmptyObject ==
  /\ GetAfterSet(Undefined) /\ lastWrite[ResKey].value = Null
  /\ res.success /\ res.data = EmptyObject
  /\ Member(ItemAt(localStorage, ResKey), "value") = EmptyObject

\* an entry for the key exists in the namespace of instance i in store ls and
\* is not expired at time t
Present(i, key, ls, t) ==
  LET p == getNamespacedKey(inst[i].namespace, key)
  IN /\ ~EmptyOrNoString(key)
     /\ p \in DOMAIN ls
     /\ ~ElapsedNonZero(ItemAt(ls, p), t)

\* get(key) through instance i would return a value
WouldReturn(i, key, ls, t, fault) ==
  LET response == get(inst[i], key, ls, t, fault)
  IN response.success /\ response.data # Null

C27_WitnessLive ==
  /\ res.op = "has" /\ res.success /\ res.data = Bool(TRUE)
  /\ ResKey \in DOMAIN localStorage
  /\ lastWrite[ResKey].ttl = Num(1) /\ now - lastWrite[ResKey].at = 1

\* has has answered success = true, data false for the empty key
C27_WitnessInvalidKey ==
  /\ res.op = "has" /\ res.key = Str(<<>>)
  /\ res.success /\ res.data = Bool(FALSE)

\* has has answered false for a live entry of a store it was denied
C27_WitnessDenied ==
  /\ res.op = "has" /\ res.fault = Denied
  /\ res.success /\ res.data = Bool(FALSE)
  /\ Present(res.id, res.key, localStorage, now)

\* the step is a call op(k) with a valid key through a store that is not denied
ValidCall(op) ==
  res'.op = op /\ res'.fault = NoFault /\ ~EmptyOrNoString(res'.key)

\* C28: remove(k) succeeds, for an absent key too, and changes the entry of
\* no other key; from then until the next set(k, v) get(k) answers not-found
C28_Remove ==
  [][/\ ValidCall("remove") =>
          /\ res'.success
          /\ localStorage' = removeItem(localStorage, ResKey')
     /\ (ValidCall("get") /\ ResKey' \notin DOMAIN lastWrite') =>
          /\ res'.success /\ res'.data = Null
          /\ res'.message = "Item not found"]_vars

\* a remove has taken the entry of its key and left the entry of the other
C28_Witness ==
  /\ res.op = "remove" /\ res.success /\ res.key = Str(<<"k">>)
  /\ DOMAIN lastWrite = {<<"a", ":", "j">>}
  /\ DOMAIN localStorage = {<<"a", ":", "j">>}

\* a remove of a key that has no entry has succeeded
C28_WitnessAbsent ==
  /\ res.op = "remove" /\ res.success /\ res.key = Str(<<"k">>)
  /\ localStorage = EmptyStore /\ lastWrite = EmptyStore

\* a get of the removed key finds nothing, beside the entry of the other key
C28_WitnessGet ==
  /\ res.op = "get" /\ res.key = Str(<<"k">>)
  /\ res.success /\ res.data = Null /\ res.message = "Item not found"
  /\ DOMAIN localStorage = {<<"a", ":", "j">>}

----------------------------------------------------------------------------
(* C29: size *)

\* the length of the physical key and of the stored text, summed over the
\* entries ps of store ls
Footprint(ps, ls) == SumOver([p \in ps |-> Len(p) + TextLength(ls[p])], ps)

\* C29: size() is the sum, over the entries of the instance's namespace only,
\* of physical key length plus stored value length (0 after clear(), and at
\* least the footprint of each key added)
C29_SizeOwnNamespace ==
  (res.op = "size" /\ res.success) =>
    res.data = Num(Footprint(OwnEntries(res.id, localStorage), localStorage))

\* size() is never less than that sum, and 0 for a store clear() has emptied
C29_SizeAtLeastOwn ==
  (res.op = "size" /\ res.success) =>
    /\ res.data.val >= Footprint(OwnEntries(res.id, localStorage), localStorage)
    /\ NamespaceFilter(inst[res.id], localStorage) = {} => res.data = Num(0)

\* size() has counted an entry of another namespace
C29_CountsForeign ==
  /\ res.op = "size" /\ res.success /\ res.data.val > 0
  /\ OwnEntries(res.id, localStorage) = {}

----------------------------------------------------------------------------
(* C30: no background sweep *)

\* the entries of store ls whose time is over at time t
ExpiredEntries(ls, t) == {p \in DOMAIN ls : ElapsedNonZero(ItemAt(ls, p), t)}

\* the step is a call that accesses physical key p
Accesses(p) ==
  \/ res'.op \in {"get", "has", "remove"} /\ ResKey' = p
  \/ res'.op = "clear"

C30_WitnessSize ==
  /\ res.op = "size" /\ res.success /\ res.data.val > 0
  /\ ExpiredEntries(localStorage, now) = DOMAIN localStorage

\* a get has observed the expiry and removed the entry
C30_WitnessObserved ==
  /\ res.op = "get" /\ res.message = "Item expired"
  /\ ResKey \in DOMAIN lastWrite /\ ResKey \notin DOMAIN localStorage

----------------------------------------------------------------------------
(* Calls that are not awaited one by one.  An async handler runs to its    *)
(* first await when it is called; what follows the await is a job of the   *)
(* microtask queue.  set awaits compressData, get awaits decompressData,   *)
(* touch awaits both, each only when a compressor is configured and only   *)
(* when nothing was thrown on the way there.                               *)

\* get and touch have come to await decompressData with this text
Awaited(data) == ~data.thrown

\* what get and touch hold at await decompressData: the text, or what was
\* thrown on the way, or nothing when they returned before
ReadAhead(o, key, ls, fault) ==
  IF o.compression = Undefined \/ ~validateStorageKey(key).success
       \/ Read(o, key, ls, fault).thrown
       \/ NoRawData(getItem(ls, getNamespacedKey(o.namespace, key)))
  THEN Throw("none", "returned before the await")
  ELSE Decompressed(o, Decrypted(o, getItem(ls, getNamespacedKey(o.namespace, key))))

\* the entry of the history for the key of a call, as the call finds it
Found(i, key) ==
  IF getNamespacedKey(inst[i].namespace, key) \in DOMAIN lastWrite
       /\ getNamespacedKey(inst[i].namespace, key) \in DOMAIN localStorage
  THEN lastWrite[getNamespacedKey(inst[i].namespace, key)]
  ELSE [op |-> "none"]

\* what the caller holds while the promise of its call is pending
Awaiting == [op |-> "await"]

\* the application calls set; the call runs to its end or to its await
CallSet(i, key, value, ttl) ==
  IF Suspends(inst[i], key, value, ttl)
  THEN /\ Len(pending) < MaxPending
       /\ pending' = Append(pending,
                       [kind |-> "set", id |-> i, key |-> key, value |-> value,
                        ttl |-> ttl, at |-> now, fault |-> NoFault,
                        serializedData |->
                          Compressed(inst[i], NewItem(inst[i], value, ttl, now))])
       /\ res' = Awaiting
       /\ UNCHANGED <<localStorage, now, inst, lastWrite>>
  ELSE \E r \in {set(inst[i], key, value, ttl, localStorage, now, NoFault)} :
         /\ res' = Called("set", i, key, r)
                     @@ [value |-> value, ttl |-> ttl, fault |-> NoFault]
         /\ localStorage' = r.ls
         /\ lastWrite' =
              IF r.success
              THEN setItem(lastWrite, getNamespacedKey(inst[i].namespace, key),
                           [op |-> "set", by |-> i, value |-> value, ttl |-> ttl, at |-> now])
              ELSE lastWrite
         /\ UNCHANGED <<now, inst, pending>>

\* the application calls get
CallGet(i, key) ==
  \E data \in {ReadAhead(inst[i], key, localStorage, NoFault)} :
    IF Awaited(data)
    THEN /\ Len(pending) < MaxPending
         /\ pending' = Append(pending,
                         [kind |-> "get", id |-> i, key |-> key, data |-> data,
                          read |-> Found(i, key), fault |-> NoFault])
         /\ res' = Awaiting
         /\ UNCHANGED <<localStorage, now, inst, lastWrite>>
    ELSE \E r \in {get(inst[i], key, localStorage, now, NoFault)} :
           /\ res' = Called("get", i, key, r)
                       @@ [fault |-> NoFault]
           /\ localStorage' = r.ls
           /\ UNCHANGED <<now, inst, lastWrite, pending>>

\* the application calls touch
CallTouch(i, key, ttl) ==
  \E data \in {ReadAhead(inst[i], key, localStorage, NoFault)} :
    IF Awaited(data) /\ validateTTL(ttl).success
    THEN /\ Len(pending) < MaxPending
         /\ pending' = Append(pending,
                         [kind |-> "touch", id |-> i, key |-> key, ttl |-> ttl,
                          data |-> data, read |-> Found(i, key), fault |-> NoFault])
         /\ res' = Awaiting
         /\ UNCHANGED <<localStorage, now, inst, lastWrite>>
    ELSE \E r \in {touch(inst[i], key, ttl, localStorage, now, NoFault)} :
           /\ res' = Called("touch", i, key, r)
                       @@ [ttl |-> ttl, fault |-> NoFault]
           /\ localStorage' = r.ls
           /\ lastWrite' =
                IF r.success /\ r.data = Bool(TRUE)
                THEN setItem(lastWrite, getNamespacedKey(inst[i].namespace, key),
                             [op |-> "touch", by |-> i, value |-> Found(i, key).value,
                              ttl |-> ttl, at |-> now])
                ELSE lastWrite
           /\ UNCHANGED <<now, inst, pending>>

\* set goes on from await compressData: encrypt, setItem, return
SettleSet(job) ==
  \E r \in {Stored(inst[job.id], job.key, job.serializedData, localStorage, job.fault)} :
    /\ res' = Called("set", job.id, job.key, r)
                @@ [value |-> job.value, ttl |-> job.ttl, fault |-> job.fault]
    /\ localStorage' = r.ls
    /\ lastWrite' =
         IF r.success
         THEN setItem(lastWrite, getNamespacedKey(inst[job.id].namespace, job.key),
                      [op |-> "set", by |-> job.id, value |-> job.value,
                       ttl |-> job.ttl, at |-> job.at])
         ELSE lastWrite
    /\ pending' = Tail(pending)

\* get goes on from await decompressData: JSON.parse, the expiry check on
\* the item it read, this.remove(key) on the store as it is now
SettleGet(job) ==
  \E r \in {getAfterParse(inst[job.id], job.key, localStorage, now, job.fault,
                          Parsed(job.data))} :
    /\ res' = Called("get", job.id, job.key, r)
                @@ [read |-> job.read, fault |-> job.fault]
    /\ localStorage' = r.ls
    /\ pending' = Tail(pending)
    /\ UNCHANGED lastWrite

\* touch goes on from await decompressData: JSON.parse, the new ttl and
\* timestamp, JSON.stringify, compressData, and the second await
SettleTouch(job) ==
  \E item \in {Parsed(job.data)} :
    IF item.thrown
    THEN /\ res' = Called("touch", job.id, job.key,
                          Caught(item, Bool(FALSE), localStorage))
                     @@ [ttl |-> job.ttl, read |-> job.read, fault |-> job.fault]
         /\ pending' = Tail(pending)
         /\ UNCHANGED <<localStorage, lastWrite>>
    ELSE /\ pending' = Append(Tail(pending),
                         [kind |-> "touchWrite", id |-> job.id, key |-> job.key,
                          ttl |-> job.ttl, at |-> now, read |-> job.read,
                          value |-> item.val.value, fault |-> job.fault,
                          serializedData |->
                            Compressed(inst[job.id],
                                       TouchedItem(inst[job.id], item.val, job.ttl, now))])
         /\ res' = Awaiting
         /\ UNCHANGED <<localStorage, lastWrite>>

\* touch goes on from await compressData: encrypt, setItem, return
SettleTouchWrite(job) ==
  /\ res' = [op |-> "touch", id |-> job.id, key |-> job.key, success |-> TRUE,
             message |-> "TTL updated successfully", data |-> Bool(TRUE),
             ttl |-> job.ttl, read |-> job.read, fault |-> job.fault]
  /\ localStorage' = setItem(localStorage,
                             getNamespacedKey(inst[job.id].namespace, job.key),
                             Encrypted(inst[job.id], job.serializedData))
  /\ lastWrite' = setItem(lastWrite, getNamespacedKey(inst[job.id].namespace, job.key),
                          [op |-> "touch", by |-> job.id, value |-> job.value,
                           ttl |-> job.ttl, at |-> job.at])
  /\ pending' = Tail(pending)

\* the job at the head of the microtask queue runs
Settle ==
  /\ pending # <<>>
  /\ CASE Head(pending).kind = "set" -> SettleSet(Head(pending))
       [] Head(pending).kind = "get" -> SettleGet(Head(pending))
       [] Head(pending).kind = "touch" -> SettleTouch(Head(pending))
       [] OTHER -> SettleTouchWrite(Head(pending))
  /\ UNCHANGED <<now, inst>>

(* Races: a plain instance and a compressing one on one store and in one   *)
(* namespace, one key, and calls made while others are suspended           *)

InitRace ==
  /\ InitStore
  /\ inst = [i \in {1, 2} |->
               IF i = 1 THEN Glancy(<<"a">>, Undefined)
               ELSE NewGlancy([namespace |-> <<"a">>, compress |-> Bool(TRUE)], i)]

NextRace ==
  \/ \E i \in {1, 2}, value \in Values : CallSet(i, Str(<<"k">>), value, Num(1))
  \/ \E i \in {1, 2} : CallGet(i, Str(<<"k">>))
  \/ CallTouch(2, Str(<<"k">>), Undefined)
  \/ Settle
  \/ Tick(MaxClockRace)

SpecRace == InitRace /\ [][NextRace]_vars

----------------------------------------------------------------------------
(* C31, C37, C38: calls that race *)

\* what the get or touch that ends in this step read: the history of its
\* key when it was called
ReadThen ==
  IF pending' = pending THEN Found(res'.id, res'.key) ELSE Head(pending).read

\* the set that ends in this step is told of no error, and the text under
\* its key is the text of its item alone
WritesOwnText ==
  res'.op = "set" =>
    /\ res'.success
    /\ lastWrite'[ResKey'].value = res'.value /\ lastWrite'[ResKey'].by = res'.id
    /\ localStorage'[ResKey'] =
         Encrypted(inst[res'.id],
                   Compressed(inst[res'.id],
                              NewItem(inst[res'.id], res'.value, res'.ttl,
                                      lastWrite'[ResKey'].at)))

\* the get that ends in this step answers the value of the set that wrote
\* last before it read, while that item lives
ReadsLastWrite ==
  (res'.op = "get" /\ ReadThen.op = "set" /\ now - ReadThen.at <= ReadThen.ttl.val) =>
    (res'.success /\ res'.data = ReadThen.value)

\* C31: when two sets on one namespaced key both complete, neither is told
\* of an error, nothing is merged, and a subsequent get returns the value of
\* the set whose store write happened last
C31_LastWriterWins == [][WritesOwnText /\ ReadsLastWrite]_vars

\* the store holds the text of the last write alone, and no writer is told
\* of an error
C31_LastWriteStored == [][WritesOwnText]_vars

\* between plain instances the get returns the value written last
C31_LastWriterWinsPlain ==
  [][(res'.op = "get" /\ res'.id = 1 /\ ReadThen.op = "set" /\ ReadThen.by = 1) =>
       ReadsLastWrite]_vars

\* two sets of the compressing instance are suspended at once, the one that
\* will write last called first
C31_TwoSetsPending ==
  /\ Len(pending) = 2
  /\ pending[1].kind = "set" /\ pending[2].kind = "set"
  /\ pending[1].value # pending[2].value

\* a get through the compressing instance has failed on what that instance
\* wrote last
C31_LastWriteUnreadable ==
  /\ res.op = "get" /\ res.id = 2 /\ ~res.success
  /\ ResKey \in DOMAIN localStorage
  /\ lastWrite[ResKey].op = "set" /\ lastWrite[ResKey].by = 2
  /\ now = lastWrite[ResKey].at

C37_TouchFails ==
  (res.op = "touch" /\ "read" \in DOMAIN res) => (~res.success /\ res.data = Bool(FALSE))

C38_WitnessRemoved ==
  /\ res.op = "get" /\ res.id = 1 /\ res.message = "Item expired"
  /\ ResKey \in DOMAIN lastWrite /\ ResKey \notin DOMAIN localStorage
  /\ now - lastWrite[ResKey].at > lastWrite[ResKey].ttl.val

----------------------------------------------------------------------------
(* C36: what touch changes *)

\* a ttl of zero and no ttl both mean that the item never expires
NeverOr(ttl) == IF ttl = Num(0) THEN Undefined ELSE ttl

\* the ttl the claim gives the touched item: the given one, or the default
\* when none is given
ClaimedTTL(i, ttl) == IF ttl = Undefined THEN inst[i].defaultTTL ELSE ttl

\* the touch of this step has rewritten the entry with its value, the time
\* of the call and the claimed ttl, or has found no entry and written nothing
TouchedAsClaimed ==
  IF ResKey' \in DOMAIN localStorage
  THEN /\ res'.success /\ res'.data = Bool(TRUE)
       /\ DOMAIN localStorage' = DOMAIN localStorage
       /\ ItemAt(localStorage', ResKey').value = ItemAt(localStorage, ResKey').value
       /\ ItemAt(localStorage', ResKey').timestamp = Num(now)
       /\ NeverOr(Member(ItemAt(localStorage', ResKey'), "ttl"))
            = NeverOr(ClaimedTTL(res'.id, res'.ttl))
  ELSE /\ res'.success /\ res'.data = Bool(FALSE)
       /\ localStorage' = localStorage

\* C36: touch(k, ttl) on a present key rewrites the entry with the same
\* value, timestamp = now and ttl = the given ttl (the default one, possibly
\* none, when no ttl is given) and returns data true; on an absent key it
\* returns success = true, data false and writes nothing
C36_TouchMetadataOnly == [][res'.op = "touch" => TouchedAsClaimed]_vars

\* it does so but for a ttl of zero given where there is a default TTL
C36_TouchMetadataOnlyNonZero ==
  [][(res'.op = "touch" /\ (res'.ttl # Num(0) \/ ~Truthy(inst[res'.id].defaultTTL))) =>
       TouchedAsClaimed]_vars

\* touch(k, 0) has given the item the default TTL of three
C36_ZeroGivenDefault ==
  /\ res.op = "touch" /\ res.ttl = Num(0) /\ res.data = Bool(TRUE)
  /\ inst[res.id].defaultTTL = Num(3)
  /\ ItemAt(localStorage, ResKey).ttl = Num(3)

\* touch(k, 10) has rewritten an item that had no ttl
C36_WitnessRewritten ==
  /\ res.op = "touch" /\ res.ttl = Num(10) /\ res.data = Bool(TRUE)
  /\ ItemAt(localStorage, ResKey).ttl = Num(10)
  /\ ItemAt(localStorage, ResKey).timestamp = Num(now)
  /\ now > 0

----------------------------------------------------------------------------
(* C39: reads that fail *)

ReadingCalls == {"get", "touch", "getTTL"}

\* the call of this step has found a text under its key that does not
\* decrypt, decompress and parse to an item
Undecodable ==
  /\ res'.op \in ReadingCalls /\ res'.fault = NoFault
  /\ ~EmptyOrNoString(res'.key)
  /\ res'.op = "touch" => validateTTL(res'.ttl).success
  /\ ResKey' \in DOMAIN localStorage
  /\ ParsedItem(inst[res'.id], localStorage[ResKey']).thrown

\* C39: a get, touch or getTTL that fails to decrypt, decompress or parse
\* what it found answers success = false, and leaves every entry as it was;
\* so does every get, touch and getTTL that answers success = false
C39_FailedReadsKeepStore ==
  [][/\ Undecodable => ~res'.success
     /\ (res'.op \in ReadingCalls /\ ~res'.success) => localStorage' = localStorage]_vars

\* a get has failed on the text a compressing or enciphering instance found
\* under its key, and the text is still there
C39_Witness ==
  /\ res.op = "get" /\ res.fault = NoFault /\ ~res.success
  /\ ~EmptyOrNoString(res.key)
  /\ ResKey \in DOMAIN localStorage
  /\ ParsedItem(inst[res.id], localStorage[ResKey]).thrown

\* so has a touch
C39_WitnessTouch ==
  /\ res.op = "touch" /\ res.fault = NoFault /\ ~res.success
  /\ ~EmptyOrNoString(res.key) /\ validateTTL(res.ttl).success
  /\ ResKey \in DOMAIN localStorage
  /\ ParsedItem(inst[res.id], localStorage[ResKey]).thrown

\* and a getTTL
C39_WitnessGetTTL ==
  /\ res.op = "getTTL" /\ res.fault = NoFault /\ ~res.success
  /\ ~EmptyOrNoString(res.key)
  /\ ResKey \in DOMAIN localStorage
  /\ ParsedItem(inst[res.id], localStorage[ResKey]).thrown

----------------------------------------------------------------------------
(* C32: the two dictionaries, code by code.  The locals of either loop     *)
(* after a prefix of its input are those of the run on the prefix.         *)

\* the locals of compressData after the first k characters of input
CompressorAfter(c, input, k) == compressFrom(c, SubSeq(input, 1, k), 1, compressStart)

\* the locals of compressData when it emits its j-th code: current is the
\* phrase the code stands for
Emitting(c, input, j) ==
  IF \E k \in 1..Len(input) : Len(CompressorAfter(c, input, k).result) >= j
  THEN CompressorAfter(c, input,
         (CHOOSE k \in 1..Len(input) :
            /\ Len(CompressorAfter(c, input, k).result) >= j
            /\ Len(CompressorAfter(c, input, k - 1).result) < j) - 1)
  ELSE CompressorAfter(c, input, Len(input))

\* decompressData after the first j codes
DecompressorAfter(c, codes, j) == decompressCodes(c, SubSeq(codes, 1, j))

\* the text the j-th code has added to the result
DecodedPhrase(c, codes, j) ==
  IF j = 1 THEN DecompressorAfter(c, codes, 1).val
  ELSE SubSeq(DecompressorAfter(c, codes, j).val,
              Len(DecompressorAfter(c, codes, j - 1).val) + 1,
              Len(DecompressorAfter(c, codes, j).val))

\* a dictionary as the set of its pairs of a code from 256 on and a phrase
CompressorPairs(dict) == {<<dict[p], p>> : p \in DOMAIN dict}
DecompressorPairs(dict) == {<<k, dict.at[k]>> : k \in DOMAIN dict.at}

\* decompressData decodes the j-th code the compressor has emitted to the
\* phrase the compressor emitted it for, out of the dictionary the
\* compressor emitted it from
Lockstep(c, input, codes, j) ==
  /\ ~DecompressorAfter(c, codes, j).thrown
  /\ DecodedPhrase(c, codes, j) = Emitting(c, input, j).current
  /\ DecompressorPairs(DecompressorAfter(c, codes, j).st.dict)
       = CompressorPairs(Emitting(c, input, j).dict)

\* C32: while it decodes the codes compressData has emitted, the dictionary
\* of decompressData maps each code to the phrase the dictionary of
\* compressData maps to it, also after the dictionary has overflowed and
\* been rebuilt
C32_LockstepDictionaries ==
  res.op = "compressData" =>
    \A j \in 1..Len(res.codes) : Lockstep(inst[res.id], res.input, res.codes, j)

\* it does as long as no dictionary is rebuilt
C32_LockstepBelowCap ==
  (res.op = "compressData" /\ res.rebuilds = 0) =>
    \A j \in 1..Len(res.codes) : Lockstep(inst[res.id], res.input, res.codes, j)

\* a run below the cap that has added phrases to both dictionaries
C32_WitnessBelowCap ==
  /\ res.op = "compressData" /\ res.rebuilds = 0 /\ Len(res.codes) > 2
  /\ \E j \in 1..Len(res.codes) : res.codes[j] >= SeedSize
  /\ \A j \in 1..Len(res.codes) : Lockstep(inst[res.id], res.input, res.codes, j)

\* after a rebuild the two dictionaries hold different phrases
C32_DictionariesApart ==
  /\ res.op = "compressData" /\ res.rebuilds > 0
  /\ \E j \in 1..Len(res.codes) :
       /\ ~DecompressorAfter(inst[res.id], res.codes, j).thrown
       /\ DecompressorPairs(DecompressorAfter(inst[res.id], res.codes, j).st.dict)
            # CompressorPairs(Emitting(inst[res.id], res.input, j).dict)

----------------------------------------------------------------------------
(* One compressor and one sequence of codes, packed, unpacked and decoded; *)
(* decompressData accepts any packed string, not only those compressData   *)
(* has made                                                                *)

\* "a", the three codes from the first new phrase on, and the two halves of
\* a surrogate pair
Codes == {97, 256, 257, 258, 55357, 56832}

CodeSequences == UNION {[1..n -> Codes] : n \in 0..MaxCodes}

\* a cap one above the seeds, which a second new phrase overflows; the cap
\* of the documentation's examples; and a cap whose codes take a whole
\* character of the packed string each
DictionarySizesCodes == {Num(257), Num(4096), Num(65536)}

\* compressor i packs the codes of the run
PackCompressedData(i) ==
  /\ res.op = "none"
  /\ res' = [op |-> "packCompressedData", id |-> i, codes |-> res.codes,
             packed |-> packCompressedData(inst[i], res.codes)]
  /\ UNCHANGED <<localStorage, now, inst, lastWrite, pending>>

\* unpacks what it gave
UnpackCompressedData(i) ==
  /\ res.op = "packCompressedData" /\ res.id = i
  /\ res' = [op |-> "unpackCompressedData", id |-> i, codes |-> res.codes,
             packed |-> res.packed,
             compressed |-> unpackCompressedData(inst[i], res.packed)]
  /\ UNCHANGED <<localStorage, now, inst, lastWrite, pending>>

\* and decodes what that gave
DecompressCodes(i) ==
  /\ res.op = "unpackCompressedData" /\ res.id = i
  /\ res' = [op |-> "decompressData", id |-> i, codes |-> res.codes,
             compressed |-> res.compressed,
             output |-> decompressEnd(decompressCodes(inst[i], res.compressed))]
  /\ UNCHANGED <<localStorage, now, inst, lastWrite, pending>>

InitCodes ==
  /\ localStorage = EmptyStore
  /\ lastWrite = EmptyStore
  /\ now = 0
  /\ pending = <<>>
  /\ \E codes \in CodeSequences : res = [op |-> "none", codes |-> codes]
  /\ \E d \in DictionarySizesCodes :
       inst = [i \in {1} |-> LZWCompressor([dictionarySize |-> d])]

NextCodes ==
  \/ \E i \in DOMAIN inst : PackCompressedData(i)
  \/ \E i \in DOMAIN inst : UnpackCompressedData(i)
  \/ \E i \in DOMAIN inst : DecompressCodes(i)

SpecCodes == InitCodes /\ [][NextCodes]_vars

----------------------------------------------------------------------------
(* C33: packing and unpacking *)

\* every code is smaller than dictionarySize
BelowCap(c, codes) == \A j \in 1..Len(codes) : codes[j] < c.dictionarySize.val

\* the zeros that fill the last character of the packed string
Padding(c, codes) ==
  16 * ((bits(c).val * Len(codes) + 15) \div 16) - bits(c).val * Len(codes)

\* the packed string holds a surrogate pair
HoldsPair(packed) ==
  \E j \in 1..(Len(packed) - 1) : IsHighSurrogate(packed[j]) /\ IsLowSurrogate(packed[j + 1])

\* C33: for every sequence of codes each smaller than dictionarySize,
\* unpackCompressedData(packCompressedData(codes)) is the sequence: the zeros
\* that pad the last character are not decoded as a further code
C33_PackingReversible ==
  (res.op = "unpackCompressedData" /\ BelowCap(inst[res.id], res.codes)) =>
    res.compressed = res.codes

\* it is where the padding is narrower than a code and the packed string
\* holds no surrogate pair
C33_PackingReversibleAligned ==
  (/\ res.op = "unpackCompressedData" /\ BelowCap(inst[res.id], res.codes)
   /\ Padding(inst[res.id], res.codes) < bits(inst[res.id]).val
   /\ ~HoldsPair(res.packed)) =>
    res.compressed = res.codes

\* two codes of twelve bits come back as they were packed
C33_WitnessAligned ==
  /\ res.op = "unpackCompressedData" /\ BelowCap(inst[res.id], res.codes)
  /\ inst[res.id].dictionarySize = Num(4096)
  /\ Len(res.codes) = 2 /\ res.compressed = res.codes

\* the padding has been decoded as a further code 0
C33_PaddingDecoded ==
  /\ res.op = "unpackCompressedData" /\ BelowCap(inst[res.id], res.codes)
  /\ res.compressed = Append(res.codes, 0)

\* a code has been lost with the second half of a surrogate pair
C33_CodeLost ==
  /\ res.op = "unpackCompressedData" /\ BelowCap(inst[res.id], res.codes)
  /\ Len(res.compressed) < Len(res.codes)

----------------------------------------------------------------------------
(* C34: the decoding of one code *)

\* the dictionary has a phrase for the code
Known(dict, code) == code < SeedSize \/ code \in DOMAIN dict.at

\* the last code the dictionary has a phrase for
LastKnown(dict) ==
  CHOOSE k \in DOMAIN dict.at \cup {SeedSize - 1} :
    \A l \in DOMAIN dict.at : l <= k

\* the code at k of compressed is decoded by the rule, from the locals st
\* the loop has come to it with
DecodedByRule(c, compressed, k, st) ==
  IF Known(st.dict, compressed[k])
  THEN /\ ~DecompressorAfter(c, compressed, k).thrown
       /\ DecodedPhrase(c, compressed, k) = dictAt(st.dict, compressed[k]).s
  ELSE IF compressed[k] = LastKnown(st.dict) + 1
  THEN /\ ~DecompressorAfter(c, compressed, k).thrown
       /\ DecodedPhrase(c, compressed, k) = Append(st.current.s, st.current.s[1])
  ELSE /\ DecompressorAfter(c, compressed, k).thrown
       /\ DecompressorAfter(c, compressed, k).name = "CompressionError"

\* the codes the loop comes to
Reached(c, compressed) ==
  {k \in 2..Len(compressed) : ~DecompressorAfter(c, compressed, k - 1).thrown}

\* C34: decompressData decodes a code the dictionary knows to its phrase and
\* the code one past the last known one to current + current[0], and throws
\* CompressionError for every other code: it emits no text for a code out of
\* range
C34_DecodingRule ==
  res.op = "decompressData" =>
    \A k \in Reached(inst[res.id], res.compressed) :
      DecodedByRule(inst[res.id], res.compressed, k,
                    DecompressorAfter(inst[res.id], res.compressed, k - 1).st)

\* it does wherever dictSize is the length of the dictionary, as it is until
\* the dictionary is rebuilt
C34_DecodingRuleInStep ==
  res.op = "decompressData" =>
    \A k \in Reached(inst[res.id], res.compressed) :
      \E st \in {DecompressorAfter(inst[res.id], res.compressed, k - 1).st} :
        st.dictSize = st.dict.length =>
          DecodedByRule(inst[res.id], res.compressed, k, st)

\* the three cases of the rule, each met by a code and decoded by the rule
C34_Witness ==
  /\ res.op = "decompressData"
  /\ \A k \in Reached(inst[res.id], res.compressed) :
       DecodedByRule(inst[res.id], res.compressed, k,
                     DecompressorAfter(inst[res.id], res.compressed, k - 1).st)
  /\ \E k \in Reached(inst[res.id], res.compressed) :
       res.compressed[k] = SeedSize
  /\ \E k \in Reached(inst[res.id], res.compressed) :
       /\ res.compressed[k] >= SeedSize
       /\ Known(DecompressorAfter(inst[res.id], res.compressed, k - 1).st.dict,
                res.compressed[k])
  /\ res.output.thrown /\ res.output.name = "CompressionError"

\* after a rebuild a code two past the last known one has been decoded to
\* current + current[0]
C34_OutOfRangeDecoded ==
  /\ res.op = "decompressData"
  /\ \E k \in Reached(inst[res.id], res.compressed) :
       \E st \in {DecompressorAfter(inst[res.id], res.compressed, k - 1).st} :
         /\ ~Known(st.dict, res.compressed[k])
         /\ res.compressed[k] > LastKnown(st.dict) + 1
         /\ ~DecompressorAfter(inst[res.id], res.compressed, k).thrown

\* and the code one past the last known one has been rejected
C34_OnePastRejected ==
  /\ res.op = "decompressData"
  /\ \E k \in Reached(inst[res.id], res.compressed) :
       \E st \in {DecompressorAfter(inst[res.id], res.compressed, k - 1).st} :
         /\ res.compressed[k] = LastKnown(st.dict) + 1
         /\ DecompressorAfter(inst[res.id], res.compressed, k).thrown

----------------------------------------------------------------------------
(* C35: the size of the dictionaries *)

\* the entries of the compressor's dictionary, and of the decompressor's
CompressorEntries(st) == SeedSize + Cardinality(DOMAIN st.dict)
DecompressorEntries(st) == st.dict.length

\* neither exceeds the cap, where there is one, and dictSize counts the
\* entries
Bounded(c, entries, dictSize) ==
  /\ c.dictionarySize.type = "number" =>
       (entries <= c.dictionarySize.val /\ dictSize <= c.dictionarySize.val)
  /\ dictSize = entries

\* the entries alone do not exceed the cap
EntriesBounded(c, entries) ==
  c.dictionarySize.type = "number" => entries <= c.dictionarySize.val

\* the codes decompressData decodes without throwing
Decoded(c, codes) == {j \in 1..Len(codes) : ~DecompressorAfter(c, codes, j).thrown}

\* C35: at every step of compressData and of decompressData neither the
\* number of dictionary entries nor dictSize exceeds dictionarySize, and
\* dictSize is the number of entries, also right after a rebuild
C35_BoundedDictionary ==
  res.op = "compressData" =>
    /\ \A k \in 0..Len(res.input) :
         \E st \in {CompressorAfter(inst[res.id], res.input, k)} :
           Bounded(inst[res.id], CompressorEntries(st), st.dictSize)
    /\ \A j \in Decoded(inst[res.id], res.codes) :
         \E st \in {DecompressorAfter(inst[res.id], res.codes, j).st} :
           Bounded(inst[res.id], DecompressorEntries(st), st.dictSize)

\* so it is until a dictionary is rebuilt, and the number of entries stays
\* within the cap after that too
C35_BoundedUntilRebuild ==
  res.op = "compressData" =>
    /\ \A k \in 0..Len(res.input) :
         \E st \in {CompressorAfter(inst[res.id], res.input, k)} :
           /\ EntriesBounded(inst[res.id], CompressorEntries(st))
           /\ st.rebuilds = 0 => Bounded(inst[res.id], CompressorEntries(st), st.dictSize)
    /\ \A j \in Decoded(inst[res.id], res.codes) :
         \E st \in {DecompressorAfter(inst[res.id], res.codes, j).st} :
           /\ EntriesBounded(inst[res.id], DecompressorEntries(st))
           /\ res.rebuilds = 0 => Bounded(inst[res.id], DecompressorEntries(st), st.dictSize)

\* a run that has filled the dictionary to its cap without a rebuild
C35_WitnessFull ==
  /\ res.op = "compressData" /\ res.rebuilds = 0
  /\ inst[res.id].dictionarySize = Num(258)
  /\ CompressorAfter(inst[res.id], res.input, Len(res.input)).dictSize = 258
  /\ DecompressorAfter(inst[res.id], res.codes, Len(res.codes)).st.dictSize = 258

\* right after a rebuild the compressor's dictSize is above the cap
C35_CompressorAboveCap ==
  /\ res.op = "compressData" /\ inst[res.id].dictionarySize = Num(258)
  /\ \E k \in 0..Len(res.input) :
       CompressorAfter(inst[res.id], res.input, k).dictSize > 258

\* and the decompressor's
C35_DecompressorAboveCap ==
  /\ res.op = "compressData" /\ inst[res.id].dictionarySize = Num(258)
  /\ \E j \in Decoded(inst[res.id], res.codes) :
       DecompressorAfter(inst[res.id], res.codes, j).st.dictSize > 258

----------------------------------------------------------------------------
(* One compressor, called again and again.  lastWrite keeps, for every     *)
(* call made so far, what it returned the first time, the calls made       *)
(* before that, and whether it has been made again.                        *)

\* "aa", "ab", and "aaba", which overflows a cap of 258
InputsCalls == {<<97, 97>>, <<97, 98>>, <<97, 97, 98, 97>>}

DictionarySizesCalls == {Num(258), Num(4096)}

\* the call op(input) has returned output
Returned(op, input, output) ==
  LET call == [op |-> op, input |-> input]
  IN setItem(lastWrite, call,
             IF call \in DOMAIN lastWrite
             THEN [lastWrite[call] EXCEPT !.again = TRUE]
             ELSE [output |-> output, after |-> DOMAIN lastWrite, again |-> FALSE])

\* c.compressData(input); locals is what the locals of the call hold at its
\* end, where they are dropped
CallCompressData(i, input) ==
  /\ \E output \in {compressData(inst[i], input)} :
       /\ res' = [op |-> "compressData", id |-> i, input |-> input, output |-> output,
                  locals |-> compressFrom(inst[i], input, 1, compressStart)]
       /\ lastWrite' = Returned("compressData", input, output)
  /\ UNCHANGED <<localStorage, now, inst, pending>>

\* c.decompressData(text), for the text compressData(input) has returned
CallDecompressData(i, input) ==
  /\ [op |-> "compressData", input |-> input] \in DOMAIN lastWrite
  /\ \E text \in {lastWrite[[op |-> "compressData", input |-> input]].output} :
       \E output \in {decompressData(inst[i], text)} :
         /\ res' = [op |-> "decompressData", id |-> i, input |-> input, text |-> text,
                    output |-> output]
         /\ lastWrite' = Returned("decompressData", input, output)
  /\ UNCHANGED <<localStorage, now, inst, pending>>

InitCalls ==
  /\ InitStore
  /\ \E d \in DictionarySizesCalls :
       inst = [i \in {1} |-> LZWCompressor([dictionarySize |-> d])]

NextCalls ==
  \/ \E i \in DOMAIN inst, input \in InputsCalls : CallCompressData(i, input)
  \/ \E i \in DOMAIN inst, input \in InputsCalls : CallDecompressData(i, input)

SpecCalls == InitCalls /\ [][NextCalls]_vars

----------------------------------------------------------------------------
(* C40: the dictionary lives for one call *)

ResCall == [op |-> res.op, input |-> res.input]

C40_WitnessDecompress ==
  /\ res.op = "decompressData" /\ lastWrite[ResCall].again
  /\ (DOMAIN lastWrite \ lastWrite[ResCall].after) # {ResCall}
  /\ res.output = lastWrite[ResCall].output

====
